---- MODULE Spec2Model ----
(***************************************************************************)
(* Slot-wise agent report of src/agentEvents.js: the slot partitioner      *)
(* (generateSlotWiseTimeSlots), the timeline reconstructor                 *)
(* (processEventsForTimeSlot), the custom states of a record               *)
(* (processCustomStatesForAgent, consolidateConsecutiveStates), the metric *)
(* distributor (calculateSlotWiseCallMetrics, distributeTimeAcrossSlots)   *)
(* and the two report assemblers (generateSlotWiseAgentReport and          *)
(* generateSlotWiseAgentReportWithSeparateApiCalls).  With them: the       *)
(* simplified report (processSimplifiedAgentData), the pagination loop of  *)
(* fetchAgentEventsData, the report session of src/logger.js and the route *)
(* /api/slot-wise-agent-report that opens and closes it.                   *)
(*                                                                         *)
(* Time.  An instant is a whole number of seconds of local wall-clock      *)
(* time counted from a midnight; a Date of the source holds milliseconds,  *)
(* so Date.getTime() is 1000 times the model's instant and every           *)
(* "/ 1000" and "* 1000" of the source disappears.  An event timestamp is  *)
(* in seconds in the source as well.                                       *)
(*                                                                         *)
(* Numbers.  Math.round(n / d) is modelled exactly (half rounds up) on     *)
(* the rational n / d.  The source rounds the double product               *)
(* aggregate * (slot / total), which can fall on the other side of a half  *)
(* by one unit in the last place; a share is then one off the exact        *)
(* rounding, still within 1 of the exact weighted share.                   *)
(***************************************************************************)
EXTENDS Integers, Sequences, FiniteSets, TLC

VARIABLES
    pc,             \* position of the report request
    startTime,      \* parsed window start (Date)
    endTime,        \* parsed window end (Date)
    statsFeed,      \* what the upstream stats API holds for the window
    eventsFeed,     \* what the upstream events API holds
    timeSlots,      \* const timeSlots of the report generators
    statsData,      \* const statsData
    eventsData,     \* const eventsData (single-fetch path)
    slotIndex,      \* loop variable i of the per-slot fetch loop
    slotResults,    \* const slotResults of the separate-calls path
    fetchLog,       \* the events each per-slot fetch returned, in order
    reportData,     \* result.reportData
    summary,        \* result.summary
    agentNameFilter,   \* the agentName filter of the request ("" when absent)
    extensionFilter,   \* the extension filter of the request ("" when absent)
    outcome,        \* how the request ended: "pending", "returned", "thrown"
    inputBlocks,    \* the argument of a consolidateConsecutiveStates call
    consolidatedBlocks,   \* what that call returned
    pages,          \* the responses the events API has given to one fetch
    allEvents,      \* let allEvents of fetchAgentEventsData
    nextStartKey,   \* let nextStartKey (NoKey for null)
    pageCount,      \* let pageCount: the number of requests made
    fetchedEvents,  \* what fetchAgentEventsData returned
    currentReportLogs,     \* let currentReportLogs of logger.js
    reportSessionActive,   \* let reportSessionActive of logger.js
    dailyLogFile,          \* the lines appended to the daily log file
    combinedLogFiles,      \* the combined log files written, in order
    lastCall,              \* the last call of the logger and what it returned
    handlerPc,             \* position of each request's route handler
    handlerLogFile         \* const logFilePath of each request's handler

reportVars == <<pc, startTime, endTime, statsFeed, eventsFeed, timeSlots,
                statsData, eventsData, slotIndex, slotResults, fetchLog,
                reportData, summary, agentNameFilter, extensionFilter, outcome>>

consolidationVars == <<inputBlocks, consolidatedBlocks>>

paginationVars == <<pages, allEvents, nextStartKey, pageCount, fetchedEvents>>

\* The variables no report generator touches.
loggerVars == <<currentReportLogs, reportSessionActive, dailyLogFile,
                combinedLogFiles, lastCall, handlerPc, handlerLogFile>>

otherVars == <<consolidationVars, paginationVars, loggerVars>>

vars == <<reportVars, otherVars>>

(***************************************************************************)
(* Program constants.                                                      *)
(***************************************************************************)
SecondsPerMinute == 60
SecondsPerHour == 3600
SecondsPerDay == 24 * SecondsPerHour
MinutesPerDay == SecondsPerDay \div SecondsPerMinute
MinutesPerHour == SecondsPerHour \div SecondsPerMinute

(***************************************************************************)
(* Bounds of the model.                                                    *)
(***************************************************************************)
\* const maxPages of fetchAgentEventsData.
maxPages == 500

MaxHour == 2
MaxEvents == 3
MaxCalls == 4
MaxFeed == 2
MaxBlocks == 3
MaxRequests == 3
MaxLogLines == 5

(***************************************************************************)
(* JavaScript helpers.                                                     *)
(***************************************************************************)
\* Math.round(n / d) for d > 0: the nearest integer, a half rounds up.
MathRound(n, d) == (2 * n + d) \div (2 * d)

\* Math.ceil(n / d) for d > 0.
MathCeil(n, d) == -((-n) \div d)

\* Math.floor(n / d) for d > 0.
MathFloor(n, d) == n \div d

Max(a, b) == IF a >= b THEN a ELSE b

\* a || b on numbers: 0 (and undefined, modelled as 0) is falsy.
JsOr(a, b) == IF a # 0 THEN a ELSE b

\* rec.name, with undefined read as 0 by the "|| 0" that follows every use.
Field(rec, name) == IF name \in DOMAIN rec THEN rec[name] ELSE 0

\* null / undefined for object-valued variables.
Null == [isNull |-> TRUE]

IsNull(x) == "isNull" \in DOMAIN x

\* Array.prototype.reduce((sum, x) => sum + x, 0) on a sequence of numbers.
RECURSIVE SumSeq(_)
SumSeq(s) ==
    IF s = <<>> THEN 0 ELSE Head(s) + SumSeq(Tail(s))

\* Array.prototype.flatMap over a sequence of sequences.
RECURSIVE Flatten(_)
Flatten(ss) ==
    IF ss = <<>> THEN <<>> ELSE Head(ss) \o Flatten(Tail(ss))

\* String.prototype.includes on strings held as sequences of characters.
Includes(s, sub) ==
    \E i \in 0..(Len(s) - Len(sub)) : SubSeq(s, i + 1, i + Len(sub)) = sub

LowerChar(c) ==
    CASE c = "A" -> "a"
      [] c = "B" -> "b"
      [] c = "N" -> "n"
      [] c = "O" -> "o"
      [] OTHER -> c

\* String.prototype.toLowerCase
ToLowerCase(s) == [i \in DOMAIN s |-> LowerChar(s[i])]

(***************************************************************************)
(* Time instant utilities.                                                 *)
(***************************************************************************)
\* Date.prototype.getHours / getMinutes
GetHours(t) == (t % SecondsPerDay) \div SecondsPerHour

GetMinutes(t) == (t % SecondsPerHour) \div SecondsPerMinute

\* d.setHours(h, 0, 0, 0): the same day at h:00:00.000.
SetHours(t, h) == (t - (t % SecondsPerDay)) + h * SecondsPerHour

\* formatTimeDubai: toLocaleString with hour and minute only. The date and
\* the seconds are dropped; the result is the minute of the day.
formatTimeDubai(t) == (t \div SecondsPerMinute) % MinutesPerDay

\* formatDuration / formatDurationToHHMMSS: seconds to "HH:MM:SS", held as
\* the three numbers printed.
formatDuration(seconds) ==
    <<seconds \div SecondsPerHour,
      (seconds % SecondsPerHour) \div SecondsPerMinute,
      seconds % SecondsPerMinute>>

\* The inverse conversion of distributeTimeAcrossSlots: "HH:MM:SS" to seconds.
parseDuration(hms) ==
    hms[1] * SecondsPerHour + hms[2] * SecondsPerMinute + hms[3]

(***************************************************************************)
(* Slot partitioner: generateSlotWiseTimeSlots.                            *)
(***************************************************************************)
MakeSlot(slotNumber, start, end, duration) ==
    [slotNumber |-> slotNumber,
     start      |-> start,
     end        |-> end,
     label      |-> <<formatTimeDubai(start), formatTimeDubai(end)>>,
     duration   |-> duration]

\* The while loop: hourly slots from currentSlotStart until endTime.
RECURSIVE hourlySlots(_, _, _, _)
hourlySlots(currentSlotStart, end, slotNumber, slots) ==
    IF ~(currentSlotStart < end) THEN slots
    ELSE LET hourlySlotEnd == currentSlotStart + SecondsPerHour
             slotEnd       == IF hourlySlotEnd > end THEN end ELSE hourlySlotEnd
             slotDuration  == MathRound(slotEnd - currentSlotStart, SecondsPerMinute)
         IN  IF slotDuration >= 1
             THEN hourlySlots(slotEnd, end, slotNumber + 1,
                      Append(slots, MakeSlot(slotNumber, currentSlotStart,
                                             slotEnd, slotDuration)))
             ELSE hourlySlots(slotEnd, end, slotNumber, slots)

\* The first slot: from the start to the next hour mark or the end time.
firstSlotEndOf(start, end) ==
    LET nextHourMark == SetHours(start, GetHours(start) + 1)
    IN  IF nextHourMark > end THEN end ELSE nextHourMark

generateSlotWiseTimeSlots(start, end) ==
    IF GetMinutes(start) > 0
    THEN LET firstSlotEnd      == firstSlotEndOf(start, end)
             firstSlotDuration == MathRound(firstSlotEnd - start, SecondsPerMinute)
             slots == IF firstSlotDuration >= 1
                      THEN <<MakeSlot(1, start, firstSlotEnd, firstSlotDuration)>>
                      ELSE <<>>
         IN  hourlySlots(firstSlotEnd, end, Len(slots) + 1, slots)
    ELSE hourlySlots(start, end, 1, <<>>)

(***************************************************************************)
(* Timeline reconstructor: processEventsForTimeSlot.                       *)
(* An event is [username, ext, timestamp, state]; a carry state is Null or *)
(* [state, timestamp].                                                     *)
(***************************************************************************)
\* The timestamp read from an event that has none: undefined, which the
\* arithmetic of the comparators and of new Date(... * 1000) turns into NaN.
NaN == -1

\* Array.prototype.sort((a, b) => a.timestamp - b.timestamp): stable.  A
\* comparison with NaN yields NaN, which sort takes as 0 (equal).
RECURSIVE insertByTimestamp(_, _)
insertByTimestamp(sorted, event) ==
    IF sorted = <<>> THEN <<event>>
    ELSE IF \/ Head(sorted).timestamp = NaN
            \/ event.timestamp = NaN
            \/ Head(sorted).timestamp <= event.timestamp
         THEN <<Head(sorted)>> \o insertByTimestamp(Tail(sorted), event)
         ELSE <<event>> \o sorted

RECURSIVE sortByTimestamp(_)
sortByTimestamp(events) ==
    IF events = <<>> THEN <<>>
    ELSE insertByTimestamp(sortByTimestamp(SubSeq(events, 1, Len(events) - 1)),
                           events[Len(events)])

\* A changed filter of the slot's events: no test against the slot start.
inTimeSlotUpToEnd(event, timeSlot) ==
    /\ event.timestamp # NaN
    /\ event.timestamp <= timeSlot.end

\* The filter of the slot's events.
inTimeSlot(event, timeSlot) ==
    /\ event.timestamp # NaN
    /\ event.timestamp >= timeSlot.start
    /\ event.timestamp <= timeSlot.end

\* undefined as the value of a string-valued property.
Undefined == "<undefined>"

\* const newState = event.state || event.event_type
newStateOf(event) ==
    IF event.state # "" THEN event.state
    ELSE IF "event_type" \in DOMAIN event THEN event.event_type
         ELSE Undefined

\* The block pushed when an event with another state arrives.
closedBlock(currentState, event) ==
    [state     |-> currentState.state,
     startTime |-> currentState.startTime,
     endTime   |-> formatTimeDubai(event.timestamp),
     duration  |-> event.timestamp - currentState.timestamp]

\* Whether an arriving event closes the block of the current state.
closesBlock(currentState, event) ==
    ~IsNull(currentState) /\ currentState.state # newStateOf(event)

\* The for loop over slotEvents; yields [currentState, stateBlocks].
RECURSIVE eventLoop(_, _, _)
eventLoop(slotEvents, currentState, stateBlocks) ==
    IF slotEvents = <<>>
    THEN [currentState |-> currentState, stateBlocks |-> stateBlocks]
    ELSE LET event == Head(slotEvents)
         IN  eventLoop(Tail(slotEvents),
                 [state     |-> newStateOf(event),
                  startTime |-> formatTimeDubai(event.timestamp),
                  timestamp |-> event.timestamp],
                 IF closesBlock(currentState, event)
                 THEN Append(stateBlocks, closedBlock(currentState, event))
                 ELSE stateBlocks)

\* currentState before the loop: the carried state, restarted at the slot start.
initialState(timeSlot, previousSlotState) ==
    IF IsNull(previousSlotState) THEN Null
    ELSE [state     |-> previousSlotState.state,
          startTime |-> formatTimeDubai(timeSlot.start),
          timestamp |-> timeSlot.start]

processEventsForTimeSlot(events, timeSlot, previousSlotState) ==
    LET slotEvents == sortByTimestamp(
                          SelectSeq(events, LAMBDA e : inTimeSlot(e, timeSlot)))
        loop == eventLoop(slotEvents,
                          initialState(timeSlot, previousSlotState), <<>>)
        currentState == loop.currentState
    IN  [stateBlocks |->
            IF IsNull(currentState) THEN loop.stateBlocks
            ELSE Append(loop.stateBlocks,
                     [state     |-> currentState.state,
                      startTime |-> currentState.startTime,
                      endTime   |-> formatTimeDubai(timeSlot.end),
                      duration  |-> timeSlot.end - currentState.timestamp]),
         nextSlotState |->
            IF IsNull(currentState) THEN Null
            ELSE [state |-> currentState.state, timestamp |-> timeSlot.end]]

(***************************************************************************)
(* Custom states: processCustomStatesForAgent and                          *)
(* consolidateConsecutiveStates.  A block's duration is <<seconds>>, or    *)
(* <<>> for null (an open-ended block, shown as 'CONTINUED').  An event    *)
(* carries its instant twice: timestamp is read by                         *)
(* processEventsForTimeSlot, Timestamp by processCustomStatesForAgent.     *)
(***************************************************************************)
NullDuration == <<>>

Continued == <<"CONTINUED">>

\* formatTimestampDubai: toLocaleString with the date and the time to the
\* second, held as <<day, hours, minutes, seconds>>.
formatTimestampDubai(t) ==
    <<t \div SecondsPerDay>> \o formatDuration(t % SecondsPerDay)

targetStates ==
    {"available", "Logoff", "Login", "Not Available", "training",
     "Team Meeting", "lunch", "Outbound", "ON Tickets", "Tea Break"}

\* The states whose 0-second block is given a minimum duration.
instantaneousStates == {"lunch", "Tea Break", "break"}

\* The calendar day of an instant, as the date part of formatTimestampDubai.
dateOnly(t) == t \div SecondsPerDay

\* The range filter of processCustomStatesForAgent: the date and the
\* timestamp must both lie in the range, ends included.
withinRange(event, startTimestamp, endTimestamp) ==
    /\ event.Timestamp # NaN
    /\ dateOnly(event.Timestamp) >= dateOnly(startTimestamp)
    /\ dateOnly(event.Timestamp) <= dateOnly(endTimestamp)
    /\ event.Timestamp >= startTimestamp
    /\ event.Timestamp <= endTimestamp

\* Array.prototype.sort by parseEventTimestamp(e.Timestamp): stable.
RECURSIVE insertByEventTimestamp(_, _)
insertByEventTimestamp(sorted, event) ==
    IF sorted = <<>> THEN <<event>>
    ELSE IF Head(sorted).Timestamp <= event.Timestamp
         THEN <<Head(sorted)>> \o insertByEventTimestamp(Tail(sorted), event)
         ELSE <<event>> \o sorted

RECURSIVE sortByEventTimestamp(_)
sortByEventTimestamp(events) ==
    IF events = <<>> THEN <<>>
    ELSE insertByEventTimestamp(
             sortByEventTimestamp(SubSeq(events, 1, Len(events) - 1)),
             events[Len(events)])

\* The duration of the block of an event that has a next event.
closedDuration(currentEvent, nextEvent) ==
    LET duration == nextEvent.Timestamp - currentEvent.Timestamp
    IN  IF duration = 0 /\ currentEvent.state \in instantaneousStates
        THEN 1 ELSE duration

\* The block pushed for event i of the agent's sorted events.
customStateBlock(agentEvents, i) ==
    LET currentEvent == agentEvents[i]
    IN  IF i < Len(agentEvents)
        THEN [state     |-> currentEvent.state,
              startTime |-> formatTimestampDubai(currentEvent.Timestamp),
              endTime   |-> formatTimestampDubai(agentEvents[i + 1].Timestamp),
              duration  |-> <<closedDuration(currentEvent, agentEvents[i + 1])>>]
        ELSE [state     |-> currentEvent.state,
              startTime |-> formatTimestampDubai(currentEvent.Timestamp),
              endTime   |-> Continued,
              duration  |-> NullDuration]

\* The for loop of processCustomStatesForAgent from event i on: one block
\* for every event in a target state.
RECURSIVE customStateLoop(_, _)
customStateLoop(agentEvents, i) ==
    IF i > Len(agentEvents) THEN <<>>
    ELSE (IF agentEvents[i].state \in targetStates
          THEN <<customStateBlock(agentEvents, i)>> ELSE <<>>)
         \o customStateLoop(agentEvents, i + 1)

\* stateBlocks of processCustomStatesForAgent, before consolidation.
customStateBlocks(events, agentUsername, agentExtension, startDateTime, endDateTime) ==
    customStateLoop(
        sortByEventTimestamp(
            SelectSeq(events, LAMBDA e :
                /\ (e.username = agentUsername \/ e.ext = agentExtension)
                /\ withinRange(e, startDateTime, endDateTime))),
        1)

\* The group started by a block: duration is currentBlock.duration || 0.
newGroup(currentBlock) ==
    [state      |-> currentBlock.state,
     startTime  |-> currentBlock.startTime,
     endTime    |-> currentBlock.endTime,
     duration   |-> IF currentBlock.duration = NullDuration
                       \/ currentBlock.duration = <<0>>
                    THEN <<0>> ELSE currentBlock.duration,
     blockCount |-> 1]

\* The group extended by a block of the same state.
extendGroup(currentGroup, currentBlock) ==
    [state      |-> currentGroup.state,
     startTime  |-> currentGroup.startTime,
     endTime    |-> currentBlock.endTime,
     duration   |->
         IF currentBlock.duration # NullDuration
            /\ currentGroup.duration # NullDuration
         THEN <<currentGroup.duration[1] + currentBlock.duration[1]>>
         ELSE IF currentBlock.duration = NullDuration THEN NullDuration
              ELSE currentGroup.duration,
     blockCount |-> currentGroup.blockCount + 1]

\* The for loop of consolidateConsecutiveStates from block i on.
RECURSIVE consolidateLoop(_, _, _, _)
consolidateLoop(stateBlocks, i, currentGroup, consolidated) ==
    IF i > Len(stateBlocks)
    THEN IF IsNull(currentGroup) THEN consolidated
         ELSE Append(consolidated, currentGroup)
    ELSE LET currentBlock == stateBlocks[i]
         IN  IF IsNull(currentGroup)
             THEN consolidateLoop(stateBlocks, i + 1, newGroup(currentBlock),
                                  consolidated)
             ELSE IF currentGroup.state # currentBlock.state
                  THEN consolidateLoop(stateBlocks, i + 1, newGroup(currentBlock),
                                       Append(consolidated, currentGroup))
                  ELSE consolidateLoop(stateBlocks, i + 1,
                                       extendGroup(currentGroup, currentBlock),
                                       consolidated)

consolidateConsecutiveStates(stateBlocks) ==
    consolidateLoop(stateBlocks, 1, Null, <<>>)

processCustomStatesForAgent(events, agentUsername, agentExtension, startDateTime, endDateTime) ==
    consolidateConsecutiveStates(
        customStateBlocks(events, agentUsername, agentExtension,
                          startDateTime, endDateTime))

(***************************************************************************)
(* Metric distributor: calculateSlotWiseCallMetrics and                    *)
(* distributeTimeAcrossSlots.  A ratio is the exact fraction num / den.    *)
(***************************************************************************)
\* A changed totalDurationMinutes: every slot counted as a whole hour.
totalDurationMinutesAsWholeHours(allTimeSlots) ==
    Len(allTimeSlots) * MinutesPerHour

\* allTimeSlots.reduce((sum, slot) => sum + slot.duration, 0)
totalDurationMinutes(allTimeSlots) ==
    SumSeq([i \in DOMAIN allTimeSlots |-> allTimeSlots[i].duration])

\* A changed durationRatioOf: the slot's duration over itself, as when the
\* slot is taken for the whole list.
durationRatioOfSlotAlone(timeSlot, allTimeSlots) ==
    [num |-> timeSlot.duration, den |-> timeSlot.duration]

\* slotDurationMinutes / totalDurationMinutes
durationRatioOf(timeSlot, allTimeSlots) ==
    [num |-> timeSlot.duration, den |-> totalDurationMinutes(allTimeSlots)]

\* A changed distributeCalls: the rounded share, never raised.
distributeCallsRoundedOnly(original, ratio) ==
    MathRound(original * ratio.num, ratio.den)

\* A count field: the rounded share, raised when it rounds to 0.
distributeCalls(original, ratio) ==
    LET rounded == MathRound(original * ratio.num, ratio.den)
    IN  IF original > 0 /\ rounded = 0
        THEN Max(1, MathCeil(original * ratio.num, ratio.den))
        ELSE rounded

\* A changed slotTimeSeconds: the rounded share, never raised.
slotTimeSecondsRoundedOnly(timeValueSeconds, ratio) ==
    MathRound(timeValueSeconds * ratio.num, ratio.den)

\* The seconds distributeTimeAcrossSlots gives the slot, before formatting.
slotTimeSeconds(timeValueSeconds, ratio) ==
    LET rounded == MathRound(timeValueSeconds * ratio.num, ratio.den)
    IN  IF timeValueSeconds > 0 /\ rounded = 0 THEN 1 ELSE rounded

distributeTimeAcrossSlots(timeValue, durationRatio) ==
    formatDuration(slotTimeSeconds(timeValue, durationRatio))

\* failedCalls
failedCallsOf(totalCalls, answeredCalls) == Max(0, totalCalls - answeredCalls)

\* The average handle time, read from the snake_case fields of agentStats.
ahtSecondsOf(agentStats) ==
    LET dailyTotalCalls == Field(agentStats, "total_calls")
    IN  IF dailyTotalCalls > 0
        THEN MathFloor(Field(agentStats, "talked_time")
                       + Field(agentStats, "wrap_up_time")
                       + Field(agentStats, "hold_time"), dailyTotalCalls)
        ELSE 0

\* A changed statOf: the snake_case name alone.
statOfSnakeOnly(agentStats, snake, camel) == Field(agentStats, snake)

\* agentStats.snake_case || agentStats.camelCase || 0
statOf(agentStats, snake, camel) ==
    JsOr(Field(agentStats, snake), JsOr(Field(agentStats, camel), 0))

\* A changed calculateSlotWiseCallMetrics: an agent that has events, none
\* of them in the slot, gets no share of the aggregate for that slot.
calculateSlotWiseCallMetricsOfActiveSlots(agentEvents, agentStats, timeSlot, allTimeSlots) ==
    LET isAgentActive == \/ agentEvents = <<>>
                         \/ \E i \in DOMAIN agentEvents :
                                inTimeSlot(agentEvents[i], timeSlot)
        durationRatio == IF isAgentActive
                         THEN durationRatioOf(timeSlot, allTimeSlots)
                         ELSE [num |-> 0, den |-> 1]
        totalCalls    == MathRound(statOf(agentStats, "total_calls", "totalCalls")
                                   * durationRatio.num, durationRatio.den)
        answeredCalls == MathRound(statOf(agentStats, "answered_calls", "answeredCalls")
                                   * durationRatio.num, durationRatio.den)
        share(seconds) == formatDuration(MathRound(seconds * durationRatio.num,
                                                   durationRatio.den))
    IN  [totalCalls       |-> totalCalls,
         answeredCalls    |-> answeredCalls,
         failedCalls      |-> failedCallsOf(totalCalls, answeredCalls),
         wrapUpTime       |-> share(statOf(agentStats, "wrap_up_time", "wrapUpTime")),
         holdTime         |-> share(statOf(agentStats, "hold_time", "holdTime")),
         onCallTime       |-> share(statOf(agentStats, "on_call_time", "onCallTime")),
         notAvailableTime |-> share(statOf(agentStats, "not_available_time",
                                           "notAvailableTime")),
         aht              |-> formatDuration(ahtSecondsOf(agentStats))]

calculateSlotWiseCallMetrics(agentEvents, agentStats, timeSlot, allTimeSlots) ==
    LET durationRatio == durationRatioOf(timeSlot, allTimeSlots)
        totalCalls    == distributeCalls(
                             statOf(agentStats, "total_calls", "totalCalls"),
                             durationRatio)
        answeredCalls == distributeCalls(
                             statOf(agentStats, "answered_calls", "answeredCalls"),
                             durationRatio)
    IN  [totalCalls       |-> totalCalls,
         answeredCalls    |-> answeredCalls,
         failedCalls      |-> failedCallsOf(totalCalls, answeredCalls),
         wrapUpTime       |-> distributeTimeAcrossSlots(
                                  statOf(agentStats, "wrap_up_time", "wrapUpTime"),
                                  durationRatio),
         holdTime         |-> distributeTimeAcrossSlots(
                                  statOf(agentStats, "hold_time", "holdTime"),
                                  durationRatio),
         onCallTime       |-> distributeTimeAcrossSlots(
                                  statOf(agentStats, "on_call_time", "onCallTime"),
                                  durationRatio),
         notAvailableTime |-> distributeTimeAcrossSlots(
                                  statOf(agentStats, "not_available_time",
                                         "notAvailableTime"),
                                  durationRatio),
         aht              |-> formatDuration(ahtSecondsOf(agentStats))]

(***************************************************************************)
(* Report assembler: processAgentDataForSlotWiseReport.                    *)
(* statsData is the sequence of the entries of the stats object, each      *)
(* [ext, stats]; an agent key `${username}_${ext}` is the pair of the two. *)
(* The state-time strings of the stats (Login, break, ...) are passed      *)
(* through by the source and are left out of the records here.             *)
(***************************************************************************)
agentKeyOf(username, ext) == <<username, ext>>

\* eventsByAgent[agentKey], [] when the key is absent.
eventsByAgent(evts, agentKey) ==
    SelectSeq(evts, LAMBDA e : agentKeyOf(e.username, e.ext) = agentKey)

\* eventsByUsername[username], [] when the key is absent.
eventsByUsername(evts, username) ==
    SelectSeq(evts, LAMBDA e : e.username = username)

\* Object.keys(eventsByAgent): the keys in the order of their first event.
RECURSIVE eventAgentKeys(_, _)
eventAgentKeys(evts, keys) ==
    IF evts = <<>> THEN keys
    ELSE LET agentKey == agentKeyOf(Head(evts).username, Head(evts).ext)
         IN  eventAgentKeys(Tail(evts),
                 IF \E i \in DOMAIN keys : keys[i] = agentKey
                 THEN keys ELSE Append(keys, agentKey))

\* normalizedStats of an entry of the stats object.
normalizeStats(agentStats) ==
    [totalCalls       |-> statOf(agentStats, "total_calls", "totalCalls"),
     answeredCalls    |-> statOf(agentStats, "answered_calls", "answeredCalls"),
     failedCalls      |-> statOf(agentStats, "failed_calls", "failedCalls"),
     wrapUpTime       |-> statOf(agentStats, "wrap_up_time", "wrapUpTime"),
     holdTime         |-> statOf(agentStats, "hold_time", "holdTime"),
     onCallTime       |-> statOf(agentStats, "on_call_time", "onCallTime"),
     notAvailableTime |-> statOf(agentStats, "not_available_time",
                                 "notAvailableTime")]

\* The default stats of an agent known from events only.
zeroStats ==
    [totalCalls |-> 0, answeredCalls |-> 0, failedCalls |-> 0, wrapUpTime |-> 0,
     holdTime |-> 0, onCallTime |-> 0, notAvailableTime |-> 0]

\* statsByUsername.get(username): the last entry of that name, or undefined.
statsByUsername(stats, username) ==
    LET hits == {i \in DOMAIN stats : stats[i].stats.name = username}
    IN  IF hits = {} THEN Null
        ELSE stats[CHOOSE i \in hits : \A j \in hits : j <= i]

\* The agents added from the stats data.
statsAgents(stats) ==
    [i \in DOMAIN stats |->
        [agentKey  |-> agentKeyOf(stats[i].stats.name, stats[i].ext),
         username  |-> stats[i].stats.name,
         extension |-> stats[i].ext,
         stats     |-> normalizeStats(stats[i].stats),
         source    |-> "stats"]]

\* The agent added for an event key that the stats did not add.
eventAgent(stats, evts, agentKey) ==
    LET firstEvent   == eventsByAgent(evts, agentKey)[1]
        statsForUser == statsByUsername(stats, firstEvent.username)
    IN  [agentKey  |-> agentKey,
         username  |-> firstEvent.username,
         extension |-> firstEvent.ext,
         stats     |-> IF IsNull(statsForUser) THEN zeroStats
                       ELSE normalizeStats(statsForUser.stats),
         source    |-> IF IsNull(statsForUser) THEN "events" ELSE "events+stats"]

\* allAgents: the stats agents, then the event agents not among them.
allAgents(stats, evts) ==
    LET fromStats == statsAgents(stats)
        newKeys   == SelectSeq(eventAgentKeys(evts, <<>>),
                         LAMBDA k : ~\E i \in DOMAIN fromStats :
                                        fromStats[i].agentKey = k)
    IN  fromStats \o [i \in DOMAIN newKeys |-> eventAgent(stats, evts, newKeys[i])]

\* Whether the agent passes the name and extension filters; an absent
\* filter (null) is the empty string.
passesFilters(agentInfo, agentName, extension) ==
    /\ agentInfo.username # <<>>
    /\ agentName # <<>> =>
           Includes(ToLowerCase(agentInfo.username), ToLowerCase(agentName))
    /\ extension # <<>> => Includes(agentInfo.extension, extension)

\* eventsByAgent[agentKey] || eventsByUsername[agentUsername] || [], sorted.
agentEventsOf(agentInfo, evts) ==
    LET byKey == eventsByAgent(evts, agentInfo.agentKey)
    IN  sortByTimestamp(IF byKey # <<>> THEN byKey
                        ELSE eventsByUsername(evts, agentInfo.username))

\* stateBlocks of a record: the slot's blocks, or the 'No Activity' block.
recordStateBlocks(stateBlocks, timeSlot) ==
    IF Len(stateBlocks) > 0 THEN stateBlocks
    ELSE <<[state       |-> "No Activity",
            startTime   |-> formatTimeDubai(timeSlot.start),
            endTime     |-> formatTimeDubai(timeSlot.end),
            displayText |-> "No Activity"]>>

\* The record pushed for one agent and one slot.
reportRecord(agentInfo, timeSlot, slotCallMetrics, slotResult, customStates) ==
    [agentName        |-> agentInfo.username,
     extension        |-> agentInfo.extension,
     timeSlot         |-> timeSlot.label,
     slotNumber       |-> timeSlot.slotNumber,
     slotDuration     |-> timeSlot.duration,
     timeSlotStart    |-> timeSlot.start,
     timeSlotEnd      |-> timeSlot.end,
     stateBlocks      |-> recordStateBlocks(slotResult.stateBlocks, timeSlot),
     customStates     |-> customStates,
     dailyStats       |-> agentInfo.stats,
     totalCalls       |-> slotCallMetrics.totalCalls,
     answered         |-> slotCallMetrics.answeredCalls,
     failed           |-> slotCallMetrics.failedCalls,
     wrapUpTime       |-> slotCallMetrics.wrapUpTime,
     holdTime         |-> slotCallMetrics.holdTime,
     onCallTime       |-> slotCallMetrics.onCallTime,
     notAvailableTime |-> slotCallMetrics.notAvailableTime,
     aht              |-> slotCallMetrics.aht]

\* timeSlots.forEach for one agent, from slot slotIdx on, threading
\* previousSlotState; yields the agent's records.
RECURSIVE slotLoop(_, _, _, _, _)
slotLoop(agentInfo, agentEvents, slots, slotIdx, previousSlotState) ==
    IF slotIdx > Len(slots) THEN <<>>
    ELSE LET timeSlot   == slots[slotIdx]
             metrics    == calculateSlotWiseCallMetrics(agentEvents,
                               agentInfo.stats, timeSlot, slots)
             slotResult == processEventsForTimeSlot(agentEvents, timeSlot,
                               previousSlotState)
             customStates == processCustomStatesForAgent(agentEvents,
                               agentInfo.username, agentInfo.extension,
                               timeSlot.start, timeSlot.end)
         IN  <<reportRecord(agentInfo, timeSlot, metrics, slotResult,
                            customStates)>>
             \o slotLoop(agentInfo, agentEvents, slots, slotIdx + 1,
                         slotResult.nextSlotState)

\* allAgents.forEach over the agents from position agentIdx on.
RECURSIVE agentLoop(_, _, _, _, _, _)
agentLoop(agents, agentIdx, evts, slots, agentName, extension) ==
    IF agentIdx > Len(agents) THEN <<>>
    ELSE LET agentInfo == agents[agentIdx]
         IN  (IF passesFilters(agentInfo, agentName, extension)
              THEN slotLoop(agentInfo, agentEventsOf(agentInfo, evts), slots,
                            1, Null)
              ELSE <<>>)
             \o agentLoop(agents, agentIdx + 1, evts, slots, agentName, extension)

processAgentDataForSlotWiseReport(stats, evts, slots, agentName, extension) ==
    agentLoop(allAgents(stats, evts), 1, evts, slots, agentName, extension)

\* new Set(reportData.map(r => `${r.agentName}_${r.extension}`))
uniqueAgentsOf(records) ==
    {agentKeyOf(records[i].agentName, records[i].extension) : i \in DOMAIN records}

(***************************************************************************)
(* processSimplifiedAgentData: one record per entry of the stats object.   *)
(* The callback of Object.keys(statsData).forEach names its parameter      *)
(* `extension`, so inside the callback that name is the key of the entry   *)
(* and the extension argument of the function is out of reach.             *)
(***************************************************************************)
\* Whether the callback goes on past its two filter tests for the entry
\* under the key `extension`.
passesSimplifiedFilters(agentData, extension, agentName) ==
    LET agentUsername  == agentData.name
        agentExtension == extension
    IN  /\ ~(agentName # <<>>
             /\ ~Includes(ToLowerCase(agentUsername), ToLowerCase(agentName)))
        /\ ~(extension # <<>> /\ agentExtension # extension)

\* agentData.not_available_detailed_report || {}
notAvailableReportOf(agentData) ==
    IF "not_available_detailed_report" \in DOMAIN agentData
    THEN agentData.not_available_detailed_report
    ELSE [none |-> 0]

\* The processedAgent pushed for the entry under the key `extension`.
processedAgentOf(agentData, extension, evts, startDateTime, endDateTime) ==
    LET totalCalls == JsOr(Field(agentData, "total_calls"), 0)
        answered   == JsOr(Field(agentData, "answered_calls"), 0)
        notAvailableReport == notAvailableReportOf(agentData)
    IN  [agentName             |-> agentData.name,
         extension             |-> extension,
         totalCalls            |-> totalCalls,
         answered              |-> answered,
         failed                |-> totalCalls - answered,
         totalWrapUpTime       |-> formatDuration(JsOr(Field(agentData, "wrap_up_time"), 0)),
         totalNotAvailableTime |-> formatDuration(JsOr(Field(agentData, "not_available_time"), 0)),
         totalHoldTime         |-> formatDuration(JsOr(Field(agentData, "hold_time"), 0)),
         totalOnCallTime       |-> formatDuration(JsOr(Field(agentData, "on_call_time"), 0)),
         aht                   |-> formatDuration(JsOr(Field(agentData, "talked_average"), 0)),
         loginTime             |-> formatDuration(JsOr(Field(notAvailableReport, "Login"), 0)),
         breakTime             |-> formatDuration(JsOr(Field(notAvailableReport, "break"), 0)),
         lunchTime             |-> formatDuration(JsOr(Field(notAvailableReport, "lunch"), 0)),
         trainingTime          |-> formatDuration(JsOr(Field(notAvailableReport, "training"), 0)),
         customStates          |-> processCustomStatesForAgent(evts,
                                       agentData.name, extension,
                                       startDateTime, endDateTime)]

\* Object.keys(statsData).forEach from entry i on.
RECURSIVE simplifiedLoop(_, _, _, _, _, _)
simplifiedLoop(stats, i, evts, agentName, startDateTime, endDateTime) ==
    IF i > Len(stats) THEN <<>>
    ELSE (IF passesSimplifiedFilters(stats[i].stats, stats[i].ext, agentName)
          THEN <<processedAgentOf(stats[i].stats, stats[i].ext, evts,
                                  startDateTime, endDateTime)>>
          ELSE <<>>)
         \o simplifiedLoop(stats, i + 1, evts, agentName, startDateTime,
                           endDateTime)

processSimplifiedAgentData(stats, evts, agentName, extension, startDateTime, endDateTime) ==
    simplifiedLoop(stats, 1, evts, agentName, startDateTime, endDateTime)

\* summary.answerRate, toFixed(1), in tenths of a percent.
answerRateOf(totalAnswered, totalCalls) ==
    IF totalCalls > 0 THEN MathRound(totalAnswered * 1000, totalCalls) ELSE 0

(***************************************************************************)
(* The upstream fetches.  Each fetch function catches every error and      *)
(* returns [] in its place; the upstream answers a query with the events   *)
(* of its feed whose timestamp lies in the queried range.                  *)
(***************************************************************************)
\* What fetchAgentStatsData can return.
fetchAgentStatsData(feed) == {feed, <<>>}

\* What fetchAgentEventsData can return.
fetchAgentEventsData(feed) == {feed, <<>>}

\* The filter fetchSlotWiseAgentEvents applies to what it received.
matchesSlotFetchFilter(event, nameFilter, extFilter) ==
    /\ nameFilter # <<>> =>
           (event.username # <<>>
            /\ Includes(ToLowerCase(event.username), ToLowerCase(nameFilter)))
    /\ extFilter # <<>> => (event.ext # <<>> /\ event.ext = extFilter)

\* What fetchSlotWiseAgentEvents can return for the range [from, to].
fetchSlotWiseAgentEvents(feed, from, to, nameFilter, extFilter) ==
    {SelectSeq(feed, LAMBDA e : /\ e.timestamp >= from
                                /\ e.timestamp <= to
                                /\ matchesSlotFetchFilter(e, nameFilter, extFilter)),
     <<>>}

(***************************************************************************)
(* generateSlotWiseAgentReport: one fetch for the whole window.            *)
(***************************************************************************)
\* parseDateTimeString twice, then generateSlotWiseTimeSlots.
GenerateTimeSlots ==
    /\ pc = "start"
    /\ UNCHANGED otherVars
    /\ timeSlots' = generateSlotWiseTimeSlots(startTime, endTime)
    /\ pc' = "fetch"
    /\ UNCHANGED <<startTime, endTime, statsFeed, eventsFeed, statsData,
                   eventsData, slotIndex, slotResults, fetchLog, reportData,
                   summary, agentNameFilter, extensionFilter, outcome>>

\* await Promise.all([fetchAgentStatsData, fetchAgentEventsData.catch])
FetchStatsAndEvents ==
    /\ pc = "fetch"
    /\ UNCHANGED otherVars
    /\ statsData' \in fetchAgentStatsData(statsFeed)
    /\ eventsData' \in fetchAgentEventsData(eventsFeed)
    /\ pc' = "process"
    /\ UNCHANGED <<startTime, endTime, statsFeed, eventsFeed, timeSlots,
                   slotIndex, slotResults, fetchLog, reportData, summary,
                   agentNameFilter, extensionFilter, outcome>>

\* processAgentDataForSlotWiseReport, the summary and the return.
ProcessReport ==
    /\ pc = "process"
    /\ UNCHANGED otherVars
    /\ reportData' = processAgentDataForSlotWiseReport(statsData, eventsData,
                         timeSlots, agentNameFilter, extensionFilter)
    /\ summary' = [totalAgents     |-> Cardinality(uniqueAgentsOf(reportData')),
                   totalTimeSlots  |-> Len(timeSlots),
                   totalStateBlocks |->
                       SumSeq([i \in DOMAIN reportData' |->
                                   Len(reportData'[i].stateBlocks)])]
    /\ outcome' = "returned"
    /\ pc' = "done"
    /\ UNCHANGED <<startTime, endTime, statsFeed, eventsFeed, timeSlots,
                   statsData, eventsData, slotIndex, slotResults, fetchLog,
                   agentNameFilter, extensionFilter>>

NextSingle == GenerateTimeSlots \/ FetchStatsAndEvents \/ ProcessReport

(***************************************************************************)
(* generateSlotWiseAgentReportWithSeparateApiCalls: one events fetch and   *)
(* one processAgentDataForSlotWiseReport call per slot.                    *)
(***************************************************************************)
\* parseDateTimeString twice, then generateSlotWiseTimeSlots.
GenerateTimeSlotsSeparate ==
    /\ pc = "start"
    /\ UNCHANGED otherVars
    /\ timeSlots' = generateSlotWiseTimeSlots(startTime, endTime)
    /\ pc' = "fetchStats"
    /\ UNCHANGED <<startTime, endTime, statsFeed, eventsFeed, statsData,
                   eventsData, slotIndex, slotResults, fetchLog, reportData,
                   summary, agentNameFilter, extensionFilter, outcome>>

\* const statsData = await fetchAgentStatsData(...)
FetchStats ==
    /\ pc = "fetchStats"
    /\ UNCHANGED otherVars
    /\ statsData' \in fetchAgentStatsData(statsFeed)
    /\ slotIndex' = 1
    /\ pc' = "slots"
    /\ UNCHANGED <<startTime, endTime, statsFeed, eventsFeed, timeSlots,
                   eventsData, slotResults, fetchLog, reportData, summary,
                   agentNameFilter, extensionFilter, outcome>>

\* One iteration of the for loop over timeSlots.
FetchAndProcessSlot ==
    /\ pc = "slots"
    /\ UNCHANGED otherVars
    /\ slotIndex <= Len(timeSlots)
    /\ LET slot == timeSlots[slotIndex]
       IN  \E slotEventsData \in fetchSlotWiseAgentEvents(eventsFeed,
                                     slot.start, slot.end, agentNameFilter, extensionFilter) :
               /\ fetchLog' = Append(fetchLog, slotEventsData)
               /\ slotResults' = Append(slotResults,
                      [slotNumber |-> slot.slotNumber,
                       timeRange  |-> slot.label,
                       duration   |-> slot.duration,
                       agentData  |-> processAgentDataForSlotWiseReport(
                                          statsData, slotEventsData, <<slot>>,
                                          agentNameFilter, extensionFilter)])
    /\ slotIndex' = slotIndex + 1
    /\ UNCHANGED <<pc, startTime, endTime, statsFeed, eventsFeed, timeSlots,
                   statsData, eventsData, reportData, summary, agentNameFilter,
                   extensionFilter, outcome>>

\* After the loop: flatMap, the summary and the return.
CombineSlotResults ==
    /\ pc = "slots"
    /\ UNCHANGED otherVars
    /\ slotIndex > Len(timeSlots)
    /\ reportData' = Flatten([i \in DOMAIN slotResults |-> slotResults[i].agentData])
    /\ summary' = [totalAgents    |-> Cardinality(uniqueAgentsOf(reportData')),
                   totalTimeSlots |-> Len(timeSlots)]
    /\ outcome' = "returned"
    /\ pc' = "done"
    /\ UNCHANGED <<startTime, endTime, statsFeed, eventsFeed, timeSlots,
                   statsData, eventsData, slotIndex, slotResults, fetchLog,
                   agentNameFilter, extensionFilter>>

NextSeparate ==
    GenerateTimeSlotsSeparate \/ FetchStats \/ FetchAndProcessSlot
        \/ CombineSlotResults

(***************************************************************************)
(* generateSimplifiedAgentReport: both fetches, then one record per agent  *)
(* of the stats.                                                           *)
(***************************************************************************)
\* await Promise.all([fetchAgentStatsData, fetchAgentEventsData])
FetchSimplified ==
    /\ pc = "start"
    /\ UNCHANGED otherVars
    /\ statsData' \in fetchAgentStatsData(statsFeed)
    /\ eventsData' \in fetchAgentEventsData(eventsFeed)
    /\ pc' = "processSimplified"
    /\ UNCHANGED <<startTime, endTime, statsFeed, eventsFeed, timeSlots,
                   slotIndex, slotResults, fetchLog, reportData, summary,
                   agentNameFilter, extensionFilter, outcome>>

\* processSimplifiedAgentData, the summary and the return.
ProcessSimplified ==
    /\ pc = "processSimplified"
    /\ UNCHANGED otherVars
    /\ reportData' = processSimplifiedAgentData(statsData, eventsData,
                         agentNameFilter, extensionFilter, startTime, endTime)
    /\ LET totalCalls    == SumSeq([i \in DOMAIN reportData' |->
                                        reportData'[i].totalCalls])
           totalAnswered == SumSeq([i \in DOMAIN reportData' |->
                                        reportData'[i].answered])
       IN  summary' = [totalAgents   |-> Len(reportData'),
                       totalCalls    |-> totalCalls,
                       totalAnswered |-> totalAnswered,
                       totalFailed   |-> SumSeq([i \in DOMAIN reportData' |->
                                                    reportData'[i].failed]),
                       answerRate    |-> answerRateOf(totalAnswered, totalCalls)]
    /\ outcome' = "simplified"
    /\ pc' = "done"
    /\ UNCHANGED <<startTime, endTime, statsFeed, eventsFeed, timeSlots,
                   statsData, eventsData, slotIndex, slotResults, fetchLog,
                   agentNameFilter, extensionFilter>>

NextSimplified == FetchSimplified \/ ProcessSimplified

\* A request for either report.
NextEitherReport == NextSingle \/ NextSimplified

(***************************************************************************)
(* A call of consolidateConsecutiveStates on a list of state blocks.       *)
(***************************************************************************)
Consolidate ==
    /\ pc = "start"
    /\ consolidatedBlocks' = consolidateConsecutiveStates(inputBlocks)
    /\ pc' = "done"
    /\ UNCHANGED <<startTime, endTime, statsFeed, eventsFeed, timeSlots,
                   statsData, eventsData, slotIndex, slotResults, fetchLog,
                   reportData, summary, agentNameFilter, extensionFilter,
                   outcome, inputBlocks>>
    /\ UNCHANGED <<paginationVars, loggerVars>>

NextConsolidate == Consolidate

(***************************************************************************)
(* fetchAgentEventsData, page by page.  The events API answers a request   *)
(* with a page: its events and, when it has more, a next_start_key.  The   *)
(* query covers the window with an hour added on each side.                *)
(***************************************************************************)
\* null as the value of nextStartKey.
NoKey == <<>>

\* The event on the page that answers request number n.
pageEvent(n) ==
    [page      |-> n,
     Timestamp |-> (n * 10 * SecondsPerMinute) % (3 * SecondsPerHour)]

\* A changed loop condition: the page limit is not looked at.
continuesPagingWithoutLimit(count, events, key) ==
    /\ ~(Len(events) = 0)
    /\ key # NoKey

\* Whether the do-while loop runs again after a page: neither break is
\* taken and the loop condition holds.
continuesPaging(count, events, key) ==
    /\ ~(count >= maxPages)
    /\ ~(Len(events) = 0)
    /\ key # NoKey

\* One iteration of the do-while loop: a request and its response.
FetchPage ==
    /\ pc = "fetchPage"
    /\ pageCount' = pageCount + 1
    /\ \E hasEvents \in BOOLEAN, hasNext \in BOOLEAN :
           LET events == IF hasEvents THEN <<pageEvent(pageCount')>> ELSE <<>>
               key    == IF hasNext THEN <<pageCount'>> ELSE NoKey
           IN  /\ pages' = Append(pages, [events |-> events, next_start_key |-> key])
               /\ allEvents' = IF Len(events) > 0 THEN allEvents \o events
                                ELSE allEvents
               /\ nextStartKey' = key
               /\ pc' = IF continuesPaging(pageCount', events, key)
                         THEN "fetchPage" ELSE "filter"
    /\ UNCHANGED <<startTime, endTime, statsFeed, eventsFeed, timeSlots,
                   statsData, eventsData, slotIndex, slotResults, fetchLog,
                   reportData, summary, agentNameFilter, extensionFilter,
                   outcome, fetchedEvents>>
    /\ UNCHANGED <<consolidationVars, loggerVars>>

\* A request, or the authentication before the first one, throws: the
\* catch block returns [].
RequestFails ==
    /\ pc = "fetchPage"
    /\ fetchedEvents' = <<>>
    /\ outcome' = "caught"
    /\ pc' = "done"
    /\ UNCHANGED <<startTime, endTime, statsFeed, eventsFeed, timeSlots,
                   statsData, eventsData, slotIndex, slotResults, fetchLog,
                   reportData, summary, agentNameFilter, extensionFilter,
                   pages, allEvents, nextStartKey, pageCount>>
    /\ UNCHANGED <<consolidationVars, loggerVars>>

\* After the loop: the strict filter on the requested range, and the return.
FilterFetched ==
    /\ pc = "filter"
    /\ fetchedEvents' = SelectSeq(allEvents,
                            LAMBDA e : withinRange(e, startTime, endTime))
    /\ outcome' = "returned"
    /\ pc' = "done"
    /\ UNCHANGED <<startTime, endTime, statsFeed, eventsFeed, timeSlots,
                   statsData, eventsData, slotIndex, slotResults, fetchLog,
                   reportData, summary, agentNameFilter, extensionFilter,
                   pages, allEvents, nextStartKey, pageCount>>
    /\ UNCHANGED <<consolidationVars, loggerVars>>

NextFetchEvents == FetchPage \/ RequestFails \/ FilterFetched

(***************************************************************************)
(* logger.js: the report session.  The state of the logger is the record   *)
(* [logs, active, daily, files] of currentReportLogs, reportSessionActive, *)
(* the daily log file and the combined log files.  A log line is           *)
(* [level, message, by]; `by` is the request whose handler made the call   *)
(* and is not part of the line written.  The path of a combined log file   *)
(* is its position among the files written (the file name is made from    *)
(* the time of the call).                                                  *)
(***************************************************************************)
\* null as the return value of endReportSession.
NoPath == 0

Requests == 1..MaxRequests

loggerState ==
    [logs   |-> currentReportLogs,
     active |-> reportSessionActive,
     daily  |-> dailyLogFile,
     files  |-> combinedLogFiles]

\* log(message, level)
log(logger, message, level, by) ==
    LET formattedMessage == [level |-> level, message |-> message, by |-> by]
    IN  [logger EXCEPT
            !.daily = Append(@, formattedMessage),
            !.logs  = IF logger.active THEN Append(@, formattedMessage) ELSE @]

\* startReportSession()
startReportSession(logger, by) ==
    log([logger EXCEPT !.logs = <<>>, !.active = TRUE],
        "Starting new report generation session", "info", by)

\* A changed endReportSession: the buffer is not emptied after the write.
endReportSessionKeepingLogs(logger, by) ==
    IF ~logger.active \/ Len(logger.logs) = 0
    THEN [logger |-> log(logger, "No active report session or no logs to save",
                         "warn", by),
          result |-> NoPath]
    ELSE LET written == [logger EXCEPT !.files = Append(@, logger.logs)]
             logged  == log(written, "Report session logs saved", "info", by)
         IN  [logger |-> [logged EXCEPT !.active = FALSE],
              result |-> Len(written.files)]

\* endReportSession(): the logger after the call, and the value returned.
endReportSession(logger, by) ==
    IF ~logger.active \/ Len(logger.logs) = 0
    THEN [logger |-> log(logger, "No active report session or no logs to save",
                         "warn", by),
          result |-> NoPath]
    ELSE LET written == [logger EXCEPT !.files = Append(@, logger.logs)]
             logged  == log(written, "Report session logs saved", "info", by)
         IN  [logger |-> [logged EXCEPT !.active = FALSE, !.logs = <<>>],
              result |-> Len(written.files)]

\* The logger variables take the values of a logger state.
LoggerBecomes(logger) ==
    /\ currentReportLogs' = logger.logs
    /\ reportSessionActive' = logger.active
    /\ dailyLogFile' = logger.daily
    /\ combinedLogFiles' = logger.files

\* Calls of the three exported functions, in any order.
CallStartReportSession ==
    /\ Len(dailyLogFile) < MaxLogLines
    /\ LoggerBecomes(startReportSession(loggerState, 1))
    /\ lastCall' = [op |-> "startReportSession", wasActive |-> reportSessionActive,
                    result |-> NoPath]
    /\ UNCHANGED <<reportVars, consolidationVars, paginationVars, handlerPc,
                   handlerLogFile>>

CallLog ==
    /\ Len(dailyLogFile) < MaxLogLines
    /\ \E level \in {"info", "error"} :
           LoggerBecomes(log(loggerState, "message", level, 1))
    /\ lastCall' = [op |-> "log", wasActive |-> reportSessionActive,
                    result |-> NoPath]
    /\ UNCHANGED <<reportVars, consolidationVars, paginationVars, handlerPc,
                   handlerLogFile>>

CallEndReportSession ==
    /\ Len(dailyLogFile) < MaxLogLines
    /\ LET ended == endReportSession(loggerState, 1)
       IN  /\ LoggerBecomes(ended.logger)
           /\ lastCall' = [op |-> "endReportSession",
                           wasActive |-> reportSessionActive,
                           result |-> ended.result]
    /\ UNCHANGED <<reportVars, consolidationVars, paginationVars, handlerPc,
                   handlerLogFile>>

NextLoggerCalls == CallStartReportSession \/ CallLog \/ CallEndReportSession

(***************************************************************************)
(* The route /api/slot-wise-agent-report.  A handler runs without          *)
(* interruption up to its await and again from there to its response;      *)
(* the handlers of other requests run in between.                          *)
(***************************************************************************)
\* The lines a handler logs between startReportSession and its await.
logRequestLines(logger, r) ==
    log(log(log(logger,
                "Generating slot-wise agent report with separate API calls...",
                "info", r),
            "Parameters", "info", r),
        "Filters", "info", r)

\* A request without its required parameters: one line, status 400.
RejectRequest(r) ==
    /\ handlerPc[r] = "idle"
    /\ LoggerBecomes(log(loggerState,
                         "Missing required parameters for slot-wise report",
                         "error", r))
    /\ handlerPc' = [handlerPc EXCEPT ![r] = "rejected"]
    /\ UNCHANGED <<reportVars, consolidationVars, paginationVars, lastCall,
                   handlerLogFile>>

\* The handler up to `await generateSlotWiseAgentReportWithSeparateApiCalls`.
StartRequest(r) ==
    /\ handlerPc[r] = "idle"
    /\ LoggerBecomes(logRequestLines(startReportSession(loggerState, r), r))
    /\ handlerPc' = [handlerPc EXCEPT ![r] = "awaiting"]
    /\ UNCHANGED <<reportVars, consolidationVars, paginationVars, lastCall,
                   handlerLogFile>>

\* The report is there: two lines, endReportSession, a line when it
\* returned a path, and the response.
FinishRequest(r) ==
    /\ handlerPc[r] = "awaiting"
    /\ LET ended == endReportSession(
                        log(log(loggerState,
                                "Slot-wise report generated successfully",
                                "info", r),
                            "Summary", "info", r),
                        r)
       IN  /\ LoggerBecomes(IF ended.result # NoPath
                            THEN log(ended.logger, "Report logs saved to",
                                     "info", r)
                            ELSE ended.logger)
           /\ handlerLogFile' = [handlerLogFile EXCEPT ![r] = ended.result]
    /\ handlerPc' = [handlerPc EXCEPT ![r] = "responded"]
    /\ UNCHANGED <<reportVars, consolidationVars, paginationVars, lastCall>>

\* The report generator threw: the catch block logs the error, ends the
\* session and answers with status 500.
FailRequest(r) ==
    /\ handlerPc[r] = "awaiting"
    /\ LET ended == endReportSession(
                        log(loggerState,
                            "Error generating slot-wise agent report",
                            "error", r),
                        r)
       IN  /\ LoggerBecomes(ended.logger)
           /\ handlerLogFile' = [handlerLogFile EXCEPT ![r] = ended.result]
    /\ handlerPc' = [handlerPc EXCEPT ![r] = "failed"]
    /\ UNCHANGED <<reportVars, consolidationVars, paginationVars, lastCall>>

NextRequests ==
    \E r \in Requests :
        RejectRequest(r) \/ StartRequest(r) \/ FinishRequest(r) \/ FailRequest(r)

(***************************************************************************)
(* Inputs of the model: windows, stats feeds and event feeds.              *)
(***************************************************************************)
NameAn == <<"A", "n">>
NameBo == <<"B", "o">>
Ext10 == <<"1", "0">>
Ext20 == <<"2", "0">>
NoFilter == <<>>

\* Sequences over S of length at most n.
SeqUpTo(S, n) == UNION {[1..k -> S] : k \in 0..n}

\* An entry of the stats object; times is <<talked, wrapUp, hold, onCall,
\* notAvailable>> in seconds.
StatsEntry(ext, name, total, answered, times) ==
    [ext   |-> ext,
     stats |-> [name               |-> name,
                total_calls        |-> total,
                answered_calls     |-> answered,
                talked_time        |-> times[1],
                wrap_up_time       |-> times[2],
                hold_time          |-> times[3],
                on_call_time       |-> times[4],
                not_available_time |-> times[5]]]

TimeProfiles ==
    {<<0, 0, 0, 0, 0>>, <<300, 1, 125, 3600, 7>>, <<40, 125, 1, 0, 59>>,
     <<7, 2, 3, 59, 4000>>}

Event(username, ext, timestamp, state) ==
    [username |-> username, ext |-> ext, timestamp |-> timestamp,
     Timestamp |-> timestamp, state |-> state]

\* Window instants: hour marks, half hours, the last minute of an hour, and
\* instants that are not on a whole minute.
MinuteMarks == {0, 30, 59}
SecondMarks == {0, 20, 45}
Instants ==
    {h * SecondsPerHour + m * SecondsPerMinute + sec :
        h \in 0..MaxHour, m \in MinuteMarks, sec \in SecondMarks}

\* No consolidateConsecutiveStates call of its own is under way.
ConsolidationIdle ==
    /\ inputBlocks = <<>>
    /\ consolidatedBlocks = <<>>

\* No fetch of its own is under way.
PaginationIdle ==
    /\ pages = <<>>
    /\ allEvents = <<>>
    /\ nextStartKey = NoKey
    /\ pageCount = 0
    /\ fetchedEvents = <<>>

\* The logger as the module is loaded, and no request at the route.
LoggerIdle ==
    /\ currentReportLogs = <<>>
    /\ reportSessionActive = FALSE
    /\ dailyLogFile = <<>>
    /\ combinedLogFiles = <<>>
    /\ lastCall = Null
    /\ handlerPc = [r \in Requests |-> "idle"]
    /\ handlerLogFile = [r \in Requests |-> NoPath]

OthersIdle == ConsolidationIdle /\ PaginationIdle /\ LoggerIdle

InitRequest ==
    /\ OthersIdle
    /\ pc = "start"
    /\ timeSlots = <<>>
    /\ statsData = <<>>
    /\ eventsData = <<>>
    /\ slotIndex = 0
    /\ slotResults = <<>>
    /\ fetchLog = <<>>
    /\ reportData = <<>>
    /\ summary = Null
    /\ agentNameFilter = NoFilter
    /\ extensionFilter = NoFilter
    /\ outcome = "pending"

\* Any two instants as the window, one agent, no events.
InitSlots ==
    /\ InitRequest
    /\ startTime \in Instants
    /\ endTime \in Instants
    /\ statsFeed = <<StatsEntry(Ext10, NameAn, 3, 2, <<300, 1, 125, 3600, 7>>)>>
    /\ eventsFeed = <<>>

\* One agent, every feed of at most MaxEvents events of two states at the
\* slot start, inside the first slot, on the slot boundary and after it.
TimelineWindows == {<<1800, 7200>>, <<0, 3600>>}
TimelineEventTimes == {1800, 2400, 3600, 4000}
TimelineStates == {"Login", "lunch"}

InitTimeline ==
    /\ InitRequest
    /\ \E window \in TimelineWindows : startTime = window[1] /\ endTime = window[2]
    /\ statsFeed = <<StatsEntry(Ext10, NameAn, 3, 2, <<300, 1, 125, 3600, 7>>)>>
    /\ eventsFeed \in SeqUpTo({Event(NameAn, Ext10, t, st) :
                                  t \in TimelineEventTimes, st \in TimelineStates},
                              MaxEvents)

\* One agent with every aggregate up to MaxCalls calls (answered above the
\* total included), over windows whose slots have unequal durations.
MetricStarts == {0, 1800, 3540}
MetricEndOffsets == {0, 20, 60, 2700}
MetricWindows ==
    {<<from, h * SecondsPerHour + o>> :
        from \in MetricStarts, h \in 1..MaxHour, o \in MetricEndOffsets}

InitMetrics ==
    /\ InitRequest
    /\ \E window \in MetricWindows : startTime = window[1] /\ endTime = window[2]
    /\ \E total \in 0..MaxCalls, answered \in 0..MaxCalls, times \in TimeProfiles :
           statsFeed = <<StatsEntry(Ext10, NameAn, total, answered, times)>>
    /\ eventsFeed = <<>>

\* Per-slot fetches: an agent of the stats, the same user on another
\* extension and an agent known from events only.
SeparateWindows == {<<1800, 7200>>, <<1800, 9000>>}
SeparateEventTimes == {2400, 4000}
SeparateStatsFeeds ==
    {<<>>,
     <<StatsEntry(Ext10, NameAn, 1, 1, <<0, 0, 0, 0, 0>>)>>,
     <<StatsEntry(Ext10, NameAn, MaxCalls, 2, <<300, 1, 125, 3600, 7>>)>>}

InitSeparate ==
    /\ InitRequest
    /\ \E window \in SeparateWindows : startTime = window[1] /\ endTime = window[2]
    /\ statsFeed \in SeparateStatsFeeds
    /\ eventsFeed \in SeqUpTo({Event(who[1], who[2], t, "Login") :
                                  who \in {<<NameAn, Ext10>>, <<NameAn, Ext20>>,
                                           <<NameBo, Ext20>>},
                                  t \in SeparateEventTimes},
                              MaxFeed)

\* One agent of the stats whose events may carry no state, the state
\* 'none' or the flag enabled: false.
FlaggedEventTimes == {2400, 4000}
FlaggedStates == {"Login", "none", ""}

FlaggedEvent(username, ext, timestamp, state, enabled) ==
    [username |-> username, ext |-> ext, timestamp |-> timestamp,
     Timestamp |-> timestamp, state |-> state, enabled |-> enabled]

InitFlaggedEvents ==
    /\ InitRequest
    /\ startTime = 1800
    /\ endTime = 7200
    /\ statsFeed = <<StatsEntry(Ext10, NameAn, 3, 2, <<300, 1, 125, 3600, 7>>)>>
    /\ eventsFeed \in SeqUpTo({FlaggedEvent(NameAn, Ext10, t, st, en) :
                                  t \in FlaggedEventTimes, st \in FlaggedStates,
                                  en \in BOOLEAN},
                              MaxFeed)

\* One agent with every aggregate of up to 9 calls over the nine whole
\* hours from 10:00 to 19:00.
InitNineSlots ==
    /\ InitRequest
    /\ startTime = 10 * SecondsPerHour
    /\ endTime = 19 * SecondsPerHour
    /\ \E total \in 0..9, answered \in 0..9 :
           statsFeed = <<StatsEntry(Ext10, NameAn, total, answered,
                                    <<300, 1, 125, 3600, 7>>)>>
    /\ eventsFeed = <<>>

\* Two agents of the stats, every aggregate of the first up to MaxCalls
\* calls (answered above the total included), and every pair of a name
\* filter and an extension filter; either report is requested.
FilterNames == {NoFilter, <<"a">>, <<"B", "O">>}
FilterExtensions == {NoFilter, <<"1">>, <<"0">>, Ext20}
FilterStatsFeeds ==
    UNION {{<<StatsEntry(Ext10, NameAn, total, answered, <<300, 1, 125, 3600, 7>>)>>,
            <<StatsEntry(Ext10, NameAn, total, answered, <<300, 1, 125, 3600, 7>>),
              StatsEntry(Ext20, NameBo, 1, 1, <<40, 125, 1, 0, 59>>)>>} :
           total \in 0..MaxCalls, answered \in 0..MaxCalls}
FilterEventFeeds ==
    SeqUpTo({Event(NameAn, Ext10, 2400, "Login"), Event(NameBo, Ext20, 4000, "lunch")}, 1)

InitFilters ==
    /\ OthersIdle
    /\ pc = "start"
    /\ timeSlots = <<>>
    /\ statsData = <<>>
    /\ eventsData = <<>>
    /\ slotIndex = 0
    /\ slotResults = <<>>
    /\ fetchLog = <<>>
    /\ reportData = <<>>
    /\ summary = Null
    /\ outcome = "pending"
    /\ startTime = 1800
    /\ endTime = 7200
    /\ agentNameFilter \in FilterNames
    /\ extensionFilter \in FilterExtensions
    /\ statsFeed \in FilterStatsFeeds
    /\ eventsFeed \in FilterEventFeeds

\* Feeds of at most two events, any of which may lack its timestamp or its
\* username: an agent of the stats, an agent known from events only and
\* events of no agent.
MalformedEventTimes == {2400, 4000, NaN}
MalformedEvents ==
    {Event(who[1], who[2], t, st) :
        who \in {<<NameAn, Ext10>>, <<NameBo, Ext20>>, <<<<>>, Ext10>>},
        t \in MalformedEventTimes, st \in {"Login", "lunch"}}
MalformedFeeds ==
    {<<>>} \cup {<<e>> : e \in MalformedEvents}
           \cup {<<e1, e2>> : e1 \in MalformedEvents, e2 \in MalformedEvents}

InitMalformed ==
    /\ InitRequest
    /\ startTime = 1800
    /\ endTime = 7200
    /\ statsFeed \in {<<>>, <<StatsEntry(Ext10, NameAn, 3, 2, <<300, 1, 125, 3600, 7>>)>>}
    /\ eventsFeed \in MalformedFeeds

\* No report is requested.
ReportIdle ==
    /\ pc = "start"
    /\ startTime = 0
    /\ endTime = 0
    /\ statsFeed = <<>>
    /\ eventsFeed = <<>>
    /\ timeSlots = <<>>
    /\ statsData = <<>>
    /\ eventsData = <<>>
    /\ slotIndex = 0
    /\ slotResults = <<>>
    /\ fetchLog = <<>>
    /\ reportData = <<>>
    /\ summary = Null
    /\ agentNameFilter = NoFilter
    /\ extensionFilter = NoFilter
    /\ outcome = "pending"

\* Every list of at most MaxBlocks state blocks of two states, each with a
\* duration of 0, of some seconds, or null (open-ended), over two pairs of
\* start and end times.
BlockStates == {"Login", "lunch"}
BlockDurations == {<<0>>, <<5>>, NullDuration}
BlockTimes == {<<600, 1200>>, <<1200, 1800>>}
StateBlock(state, times, duration) ==
    [state     |-> state,
     startTime |-> formatTimestampDubai(times[1]),
     endTime   |-> IF duration = NullDuration THEN Continued
                   ELSE formatTimestampDubai(times[2]),
     duration  |-> duration]

InitConsolidate ==
    /\ ReportIdle
    /\ PaginationIdle
    /\ LoggerIdle
    /\ consolidatedBlocks = <<>>
    /\ inputBlocks \in SeqUpTo({StateBlock(st, times, d) :
                                    st \in BlockStates, times \in BlockTimes,
                                    d \in BlockDurations},
                               MaxBlocks)

\* A fetch of the events of the window 01:00-02:00, before its first request.
InitFetchEvents ==
    /\ ConsolidationIdle
    /\ LoggerIdle
    /\ PaginationIdle
    /\ pc = "fetchPage"
    /\ startTime = SecondsPerHour
    /\ endTime = 2 * SecondsPerHour
    /\ statsFeed = <<>>
    /\ eventsFeed = <<>>
    /\ timeSlots = <<>>
    /\ statsData = <<>>
    /\ eventsData = <<>>
    /\ slotIndex = 0
    /\ slotResults = <<>>
    /\ fetchLog = <<>>
    /\ reportData = <<>>
    /\ summary = Null
    /\ agentNameFilter = NoFilter
    /\ extensionFilter = NoFilter
    /\ outcome = "pending"

\* The server after start-up: the logger as loaded, every request still
\* to come.
InitLogger ==
    /\ ReportIdle
    /\ ConsolidationIdle
    /\ PaginationIdle
    /\ LoggerIdle

SpecSlots == InitSlots /\ [][NextSingle]_vars
SpecTimeline == InitTimeline /\ [][NextSingle]_vars
SpecMetrics == InitMetrics /\ [][NextSingle]_vars
SpecSeparate == InitSeparate /\ [][NextSeparate]_vars
SpecFlaggedEvents == InitFlaggedEvents /\ [][NextSingle]_vars
SpecNineSlots == InitNineSlots /\ [][NextSingle]_vars
SpecFilters == InitFilters /\ [][NextEitherReport]_vars
SpecMalformed == InitMalformed /\ [][NextSingle]_vars
SpecConsolidate == InitConsolidate /\ [][NextConsolidate]_vars
SpecFetchEvents == InitFetchEvents /\ [][NextFetchEvents]_vars
SpecLoggerCalls == InitLogger /\ [][NextLoggerCalls]_vars
SpecRequests == InitLogger /\ [][NextRequests]_vars

(***************************************************************************)
(* Properties.                                                             *)
(***************************************************************************)
\* The previousSlotState with which slot slotIdx of an agent is processed:
\* null for the first slot, then the nextSlotState of the slot before.
RECURSIVE previousSlotStateAt(_, _, _)
previousSlotStateAt(agentEvents, slots, slotIdx) ==
    IF slotIdx <= 1 THEN Null
    ELSE processEventsForTimeSlot(agentEvents, slots[slotIdx - 1],
             previousSlotStateAt(agentEvents, slots, slotIdx - 1)).nextSlotState

\* The events the assembler hands to the slot loop for the agent of a record.
recordAgentEvents(rec, evts) ==
    agentEventsOf([agentKey |-> agentKeyOf(rec.agentName, rec.extension),
                   username |-> rec.agentName], evts)

\* The records of one agent, in report order.
recordsOf(records, agentKey) ==
    SelectSeq(records, LAMBDA r : agentKeyOf(r.agentName, r.extension) = agentKey)

\* The length of a state interval in seconds. The substituted 'No Activity'
\* interval carries no duration, only the two labels of the slot bounds, and
\* is taken to last the whole slot.
intervalSeconds(block, rec) ==
    IF "duration" \in DOMAIN block THEN block.duration
    ELSE rec.timeSlotEnd - rec.timeSlotStart

\* The sum of the interval lengths of a record.
coveredSeconds(rec) ==
    SumSeq([k \in DOMAIN rec.stateBlocks |-> intervalSeconds(rec.stateBlocks[k], rec)])

Abs(x) == IF x < 0 THEN -x ELSE x

\* The sum of a count field over the records of one agent.
sumTotalCalls(records) == SumSeq([i \in DOMAIN records |-> records[i].totalCalls])

sumAnswered(records) == SumSeq([i \in DOMAIN records |-> records[i].answered])

\* The sum, in seconds, of a formatted duration field over records.
sumWrapUp(records) ==
    SumSeq([i \in DOMAIN records |-> parseDuration(records[i].wrapUpTime)])

sumHold(records) ==
    SumSeq([i \in DOMAIN records |-> parseDuration(records[i].holdTime)])

sumOnCall(records) ==
    SumSeq([i \in DOMAIN records |-> parseDuration(records[i].onCallTime)])

sumNotAvailable(records) ==
    SumSeq([i \in DOMAIN records |-> parseDuration(records[i].notAvailableTime)])

\* The records of the agent of entry i of statsData.
statsAgentRecords(i) ==
    recordsOf(reportData, agentKeyOf(statsData[i].stats.name, statsData[i].ext))

\* C1 (timeline totality): in every record of a finished report the lengths
\* of the state intervals add up to the length of the record's slot.
C1_TimelineTotality ==
    pc = "done" =>
        \A i \in DOMAIN reportData :
            coveredSeconds(reportData[i])
                = reportData[i].timeSlotEnd - reportData[i].timeSlotStart

\* C2 (partition totality): for a window with start < end the generated
\* slots tile the window: the first starts at the window start, each next
\* one starts where the one before ends, the last ends at the window end,
\* every slot is longer than zero, and the durations (minutes) add up to the
\* length of the window.
C2_PartitionTotality ==
    (pc # "start" /\ startTime < endTime) =>
        /\ Len(timeSlots) >= 1
        /\ timeSlots[1].start = startTime
        /\ \A i \in 2..Len(timeSlots) : timeSlots[i].start = timeSlots[i - 1].end
        /\ timeSlots[Len(timeSlots)].end = endTime
        /\ \A i \in DOMAIN timeSlots :
               timeSlots[i].duration > 0 /\ timeSlots[i].end > timeSlots[i].start
        /\ totalDurationMinutes(timeSlots) * SecondsPerMinute = endTime - startTime

\* C3 (carry correctness): when a slot after the first is processed with a
\* carried state S and the agent has no event at the slot's start instant,
\* the first interval of the slot's record starts at the slot start and has
\* state S.
C3_CarryCorrectness ==
    pc = "done" =>
        \A i \in DOMAIN reportData :
            LET rec     == reportData[i]
                evts    == recordAgentEvents(rec, eventsData)
                carryIn == previousSlotStateAt(evts, timeSlots, rec.slotNumber)
            IN  (/\ rec.slotNumber > 1
                 /\ ~IsNull(carryIn)
                 /\ \A k \in DOMAIN evts : evts[k].timestamp # rec.timeSlotStart)
                => /\ rec.stateBlocks[1].state = carryIn.state
                   /\ rec.stateBlocks[1].startTime = formatTimeDubai(rec.timeSlotStart)

\* C4 (distribution conservation): for every agent of the stats, the sum
\* over the agent's slot records of totalCalls, of answered and of each
\* distributed duration differs from the agent's aggregate by at most the
\* number of slots.
C4_DistributionConservation ==
    pc = "done" =>
        \A i \in DOMAIN statsData :
            LET agg  == statsData[i].stats
                recs == statsAgentRecords(i)
                N    == Len(timeSlots)
            IN  /\ Abs(sumTotalCalls(recs) - agg.total_calls) <= N
                /\ Abs(sumAnswered(recs) - agg.answered_calls) <= N
                /\ Abs(sumWrapUp(recs) - agg.wrap_up_time) <= N
                /\ Abs(sumHold(recs) - agg.hold_time) <= N
                /\ Abs(sumOnCall(recs) - agg.on_call_time) <= N
                /\ Abs(sumNotAvailable(recs) - agg.not_available_time) <= N

\* A finished report over at least two slots in which rounding made the slot
\* sums of an agent differ from the aggregate, for a count and for a duration.
C4_Witness ==
    /\ pc = "done"
    /\ Len(timeSlots) >= 2
    /\ \E i \in DOMAIN statsData :
           /\ sumTotalCalls(statsAgentRecords(i)) > statsData[i].stats.total_calls
           /\ sumHold(statsAgentRecords(i)) # statsData[i].stats.hold_time
           /\ statsData[i].stats.hold_time > 0

\* C5 (answered <= total): in every slot record answered is at most
\* totalCalls.
C5_AnsweredAtMostTotal ==
    pc = "done" =>
        \A i \in DOMAIN reportData : reportData[i].answered <= reportData[i].totalCalls

\* C6 (non-zero preservation): an agent of the stats whose aggregate
\* totalCalls is positive has, in a report over at least one slot, a slot
\* record with totalCalls >= 1; and a count whose weighted share rounds to 0
\* while its aggregate is positive is reported as 1.
C6_NonZeroPreservation ==
    pc = "done" =>
        \A i \in DOMAIN statsData :
            LET agg  == statsData[i].stats
                recs == statsAgentRecords(i)
                T    == totalDurationMinutes(timeSlots)
            IN  /\ (agg.total_calls > 0 /\ Len(timeSlots) >= 1) =>
                       \E k \in DOMAIN recs : recs[k].totalCalls >= 1
                /\ \A k \in DOMAIN recs :
                       /\ (/\ agg.total_calls > 0
                           /\ MathRound(agg.total_calls * recs[k].slotDuration, T) = 0)
                          => recs[k].totalCalls = 1
                       /\ (/\ agg.answered_calls > 0
                           /\ MathRound(agg.answered_calls * recs[k].slotDuration, T) = 0)
                          => recs[k].answered = 1

\* A finished report with a slot whose share of a positive totalCalls rounds
\* to 0 and whose record shows 1.
C6_Witness ==
    /\ pc = "done"
    /\ \E i \in DOMAIN statsData :
           \E k \in DOMAIN statsAgentRecords(i) :
               LET rec == statsAgentRecords(i)[k]
               IN  /\ statsData[i].stats.total_calls > 0
                   /\ MathRound(statsData[i].stats.total_calls * rec.slotDuration,
                                totalDurationMinutes(timeSlots)) = 0
                   /\ rec.totalCalls = 1

\* C7 (one record per agent and slot): in the report of the separate-calls
\* path every agent of reportData has exactly one record for each slot, so
\* the number of records is agents x slots.
C7_OneRecordPerAgentAndSlot ==
    pc = "done" =>
        /\ Len(reportData)
               = Cardinality(uniqueAgentsOf(reportData)) * Len(timeSlots)
        /\ \A agentKey \in uniqueAgentsOf(reportData) :
               \A k \in DOMAIN timeSlots :
                   Cardinality({i \in DOMAIN reportData :
                       /\ agentKeyOf(reportData[i].agentName,
                                     reportData[i].extension) = agentKey
                       /\ reportData[i].slotNumber = timeSlots[k].slotNumber}) = 1

\* C8 (summary conservation): in the report of the separate-calls path the
\* sums of totalCalls and of answered over the records of an agent of the
\* stats differ from the agent's aggregate by at most the number of slots.
C8_ReportSumsMatchAggregate ==
    pc = "done" =>
        \A i \in DOMAIN statsData :
            /\ Abs(sumTotalCalls(statsAgentRecords(i))
                   - statsData[i].stats.total_calls) <= Len(timeSlots)
            /\ Abs(sumAnswered(statsAgentRecords(i))
                   - statsData[i].stats.answered_calls) <= Len(timeSlots)

\* C9 (carry threading in the separate-calls path): when the record of an
\* agent for slot k ends in a state S entered by an event and the agent has
\* no event in what was fetched for slot k + 1, the agent's record for slot
\* k + 1 starts with an interval of state S.
C9_CarryAcrossSeparateCalls ==
    pc = "done" =>
        \A k \in 1..(Len(slotResults) - 1) :
            \A a \in DOMAIN slotResults[k].agentData :
                \A b \in DOMAIN slotResults[k + 1].agentData :
                    LET rec  == slotResults[k].agentData[a]
                        next == slotResults[k + 1].agentData[b]
                        last == rec.stateBlocks[Len(rec.stateBlocks)]
                    IN  (/\ next.agentName = rec.agentName
                         /\ next.extension = rec.extension
                         /\ "duration" \in DOMAIN last
                         /\ recordAgentEvents(next, fetchLog[k + 1]) = <<>>)
                        => next.stateBlocks[1].state = last.state

\* C10 (invalid window): a request whose window has end <= start does not
\* get past slot generation: it ends by throwing.
C10_InvalidWindowRejected ==
    endTime <= startTime => (pc = "start" \/ outcome = "thrown")

\* The first top-of-hour instant after t.
nextHourBoundary(t) == (t \div SecondsPerHour + 1) * SecondsPerHour

Min(a, b) == IF a <= b THEN a ELSE b

\* C11 (slot alignment): of the generated slots, the first ends at the
\* earlier of the next top-of-hour instant after the window start and the
\* window end, every slot after the first starts on a top-of-hour instant,
\* and every slot other than the first and the last lasts exactly 60 minutes.
C11_SlotAlignment ==
    (pc # "start" /\ Len(timeSlots) >= 1) =>
        /\ timeSlots[1].end = Min(nextHourBoundary(startTime), endTime)
        /\ \A i \in 2..Len(timeSlots) : timeSlots[i].start % SecondsPerHour = 0
        /\ \A i \in 2..(Len(timeSlots) - 1) :
               /\ timeSlots[i].duration = MinutesPerHour
               /\ timeSlots[i].end - timeSlots[i].start = SecondsPerHour

\* The slot of a record.
recordSlot(rec) == timeSlots[rec.slotNumber]

\* The carry-in with which the slot of a record was processed, and the
\* carry-out its processing returned.
carryInOf(rec, evts) ==
    previousSlotStateAt(recordAgentEvents(rec, evts), timeSlots, rec.slotNumber)

carryOutOf(rec, evts) ==
    processEventsForTimeSlot(recordAgentEvents(rec, evts), recordSlot(rec),
                             carryInOf(rec, evts)).nextSlotState

\* The events of the agent of a record with slot.start <= instant < slot.end.
eventsInHalfOpenSlot(rec, evts) ==
    SelectSeq(recordAgentEvents(rec, evts),
              LAMBDA e : /\ e.timestamp >= rec.timeSlotStart
                         /\ e.timestamp < rec.timeSlotEnd)

\* Whether the record's intervals are the single interval of the given
\* state over the whole slot.
isWholeSlotInterval(rec, state) ==
    /\ Len(rec.stateBlocks) = 1
    /\ rec.stateBlocks[1].state = state
    /\ rec.stateBlocks[1].startTime = formatTimeDubai(rec.timeSlotStart)
    /\ rec.stateBlocks[1].endTime = formatTimeDubai(rec.timeSlotEnd)
    /\ intervalSeconds(rec.stateBlocks[1], rec) = rec.timeSlotEnd - rec.timeSlotStart

\* C12 (no event in the slot): for a record whose slot holds no event of the
\* agent (none with slot.start <= instant < slot.end): with a carry-in, the
\* record has exactly one interval, over the whole slot, in the carry-in's
\* state, and the carry-out is that state at slot.end; without a carry-in,
\* the record has exactly one interval, 'No Activity' over the whole slot,
\* and the carry-out is null.
C12_NoEventSlot ==
    pc = "done" =>
        \A i \in DOMAIN reportData :
            LET rec      == reportData[i]
                carryIn  == carryInOf(rec, eventsData)
                carryOut == carryOutOf(rec, eventsData)
            IN  eventsInHalfOpenSlot(rec, eventsData) = <<>> =>
                    IF IsNull(carryIn)
                    THEN /\ isWholeSlotInterval(rec, "No Activity")
                         /\ IsNull(carryOut)
                    ELSE /\ isWholeSlotInterval(rec, carryIn.state)
                         /\ carryOut = [state     |-> carryIn.state,
                                        timestamp |-> rec.timeSlotEnd]

\* C13 (gap before the first event): for a record whose slot holds events
\* of the agent, processed without a carry-in, with the first event later
\* than slot.start: the first interval is 'No Activity' from slot.start to
\* the first event's instant, the next interval opens at that instant in the
\* first event's state, and the carry-out is the last event's state at
\* slot.end.
C13_NoActivityBeforeFirstEvent ==
    pc = "done" =>
        \A i \in DOMAIN reportData :
            LET rec        == reportData[i]
                slotEvents == eventsInHalfOpenSlot(rec, eventsData)
                firstEvent == slotEvents[1]
                lastEvent  == slotEvents[Len(slotEvents)]
            IN  (/\ slotEvents # <<>>
                 /\ IsNull(carryInOf(rec, eventsData))
                 /\ firstEvent.timestamp > rec.timeSlotStart)
                => /\ Len(rec.stateBlocks) >= 2
                   /\ rec.stateBlocks[1].state = "No Activity"
                   /\ rec.stateBlocks[1].startTime = formatTimeDubai(rec.timeSlotStart)
                   /\ rec.stateBlocks[1].endTime = formatTimeDubai(firstEvent.timestamp)
                   /\ rec.stateBlocks[2].state = firstEvent.state
                   /\ rec.stateBlocks[2].startTime = formatTimeDubai(firstEvent.timestamp)
                   /\ carryOutOf(rec, eventsData)
                          = [state |-> lastEvent.state, timestamp |-> rec.timeSlotEnd]

\* The slots in which processEventsForTimeSlot takes an event into slotEvents.
slotsProcessing(event) ==
    {k \in DOMAIN timeSlots : inTimeSlot(event, timeSlots[k])}

\* C14 (half-open slots): of the events handed to the slot loop for an
\* agent, every one inside the window (start <= instant < end) is processed
\* in exactly one slot of the partition, and one whose instant is the
\* boundary between slot k and slot k + 1 is processed in slot k + 1 only.
C14_HalfOpenAssignment ==
    pc = "done" =>
        \A i \in DOMAIN reportData :
            LET evts == recordAgentEvents(reportData[i], eventsData)
            IN  \A j \in DOMAIN evts :
                    /\ (evts[j].timestamp >= startTime /\ evts[j].timestamp < endTime)
                       => Cardinality(slotsProcessing(evts[j])) = 1
                    /\ \A k \in 1..(Len(timeSlots) - 1) :
                           evts[j].timestamp = timeSlots[k].end
                           => slotsProcessing(evts[j]) = {k + 1}

\* The state blocks processCustomStatesForAgent consolidated for a record.
recordCustomBlocks(rec, evts) ==
    customStateBlocks(recordAgentEvents(rec, evts), rec.agentName, rec.extension,
                      rec.timeSlotStart, rec.timeSlotEnd)

\* The positions, in the input list, of the blocks merged into group g.
groupMembers(groups, g) ==
    LET before == SumSeq([k \in 1..(g - 1) |-> groups[k].blockCount])
    IN  (before + 1)..(before + groups[g].blockCount)

\* C15 (open-ended groups): in the custom states of every record, a group
\* into which consolidateConsecutiveStates merged an open-ended block (null
\* duration, 'CONTINUED') has the duration null, a group of one open-ended
\* block and a group that starts with one included.
C15_OpenEndedGroupIsNull ==
    pc = "done" =>
        \A i \in DOMAIN reportData :
            LET groups == reportData[i].customStates
                blocks == recordCustomBlocks(reportData[i], eventsData)
            IN  \A g \in DOMAIN groups :
                    (\E m \in groupMembers(groups, g) :
                         blocks[m].duration = NullDuration)
                    => groups[g].duration = NullDuration

\* Whether an event carries a real state and is not marked disabled.
isMeaningfulEvent(event) ==
    /\ event.state # ""
    /\ event.state # "none"
    /\ ("enabled" \in DOMAIN event => event.enabled # FALSE)

\* The report of the same request over the feed without the events that
\* have no state, the state 'none' or enabled: false.
reportWithoutDroppedEvents ==
    processAgentDataForSlotWiseReport(statsData,
        SelectSeq(eventsData, isMeaningfulEvent), timeSlots,
        agentNameFilter, extensionFilter)

\* C16 (dropped events): an event whose state is empty or 'none', or whose
\* enabled flag is false, neither opens nor closes a state interval: the
\* state intervals of every record are those of the report over the feed
\* without such events.
C16_DroppedEventsMakeNoInterval ==
    pc = "done" =>
        /\ Len(reportData) = Len(reportWithoutDroppedEvents)
        /\ \A i \in DOMAIN reportData :
               reportData[i].stateBlocks
                   = reportWithoutDroppedEvents[i].stateBlocks

\* C17 (rounding tolerance of the slot sums): for every agent of the stats,
\* the sum over the agent's slot records of totalCalls and of answered
\* differs from the aggregate by at most 1, and the sum of each distributed
\* duration differs from the aggregate by at most 1 second.
C17_SlotSumsWithinOne ==
    pc = "done" =>
        \A i \in DOMAIN statsData :
            LET agg  == statsData[i].stats
                recs == statsAgentRecords(i)
            IN  /\ Abs(sumTotalCalls(recs) - agg.total_calls) <= 1
                /\ Abs(sumAnswered(recs) - agg.answered_calls) <= 1
                /\ Abs(sumWrapUp(recs) - agg.wrap_up_time) <= 1
                /\ Abs(sumHold(recs) - agg.hold_time) <= 1
                /\ Abs(sumOnCall(recs) - agg.on_call_time) <= 1
                /\ Abs(sumNotAvailable(recs) - agg.not_available_time) <= 1

\* C17 as amended: over a partition of N >= 1 slots the sums differ from
\* the aggregate by at most N - 1 (every slot value is less than 1 away
\* from its exact weighted share), for the two counts and the four durations.
C17_SlotSumsWithinSlotCount ==
    (pc = "done" /\ Len(timeSlots) >= 1) =>
        \A i \in DOMAIN statsData :
            LET agg  == statsData[i].stats
                recs == statsAgentRecords(i)
                N    == Len(timeSlots)
            IN  /\ Abs(sumTotalCalls(recs) - agg.total_calls) <= N - 1
                /\ Abs(sumAnswered(recs) - agg.answered_calls) <= N - 1
                /\ Abs(sumWrapUp(recs) - agg.wrap_up_time) <= N - 1
                /\ Abs(sumHold(recs) - agg.hold_time) <= N - 1
                /\ Abs(sumOnCall(recs) - agg.on_call_time) <= N - 1
                /\ Abs(sumNotAvailable(recs) - agg.not_available_time) <= N - 1

\* A finished report over three slots or more in which the sum of a count
\* and the sum of a duration are both 2 or more away from the aggregate.
C17_Witness ==
    /\ pc = "done"
    /\ Len(timeSlots) >= 3
    /\ \E i \in DOMAIN statsData :
           /\ Abs(sumTotalCalls(statsAgentRecords(i))
                  - statsData[i].stats.total_calls) >= 2
           /\ Abs(sumWrapUp(statsAgentRecords(i))
                  - statsData[i].stats.wrap_up_time) >= 2

\* Whether the report of the aggregate totalCalls = 9, answered = 7 over
\* nine slots of equal duration is finished.
nineSlotExampleDone ==
    /\ pc = "done"
    /\ Len(statsData) = 1
    /\ statsData[1].stats.total_calls = 9
    /\ statsData[1].stats.answered_calls = 7
    /\ Len(timeSlots) = 9
    /\ \A k \in DOMAIN timeSlots : timeSlots[k].duration = timeSlots[1].duration

\* C18 (the nine-slot example): totalCalls = 9, answered = 7 over nine equal
\* slots gives nine records with totalCalls = 1, of which exactly seven have
\* answered = 1 and the other two have answered = 0 and failed = 1.
C18_NineSlotExample ==
    nineSlotExampleDone =>
        LET recs == statsAgentRecords(1)
        IN  /\ Len(recs) = 9
            /\ \A k \in DOMAIN recs : recs[k].totalCalls = 1
            /\ Cardinality({k \in DOMAIN recs : recs[k].answered = 1}) = 7
            /\ Cardinality({k \in DOMAIN recs :
                               recs[k].answered = 0 /\ recs[k].failed = 1}) = 2

\* C18 as amended: the same aggregate over the same slots gives nine
\* records, each with totalCalls = 1, answered = 1 and failed = 0.
C18_NineSlotExampleAllAnswered ==
    nineSlotExampleDone =>
        LET recs == statsAgentRecords(1)
        IN  /\ Len(recs) = 9
            /\ \A k \in DOMAIN recs :
                   /\ recs[k].totalCalls = 1
                   /\ recs[k].answered = 1
                   /\ recs[k].failed = 0

\* The finished nine-slot example with its nine records.
C18_Witness ==
    nineSlotExampleDone /\ Len(statsAgentRecords(1)) = 9

\* The exact rounded share of an aggregate for the slot of a record.
roundedShare(aggregate, rec) ==
    MathRound(aggregate * rec.slotDuration, totalDurationMinutes(timeSlots))

\* C19 (durations are not raised): every distributed duration of a record
\* is the rounded weighted share of the aggregate, so a share of a positive
\* aggregate that rounds to 0 is reported as 0, and a zero aggregate gives 0
\* on every slot.
C19_DurationsRoundedOnly ==
    pc = "done" =>
        \A i \in DOMAIN statsData :
            LET agg  == statsData[i].stats
                recs == statsAgentRecords(i)
            IN  \A k \in DOMAIN recs :
                    /\ parseDuration(recs[k].wrapUpTime)
                           = roundedShare(agg.wrap_up_time, recs[k])
                    /\ parseDuration(recs[k].holdTime)
                           = roundedShare(agg.hold_time, recs[k])
                    /\ parseDuration(recs[k].onCallTime)
                           = roundedShare(agg.on_call_time, recs[k])
                    /\ parseDuration(recs[k].notAvailableTime)
                           = roundedShare(agg.not_available_time, recs[k])

\* The rounded share, raised to 1 second when it is 0 and the aggregate is not.
raisedShare(aggregate, rec) ==
    IF aggregate > 0 /\ roundedShare(aggregate, rec) = 0 THEN 1
    ELSE roundedShare(aggregate, rec)

\* C19 as amended: every distributed duration of a record is the rounded
\* weighted share of the aggregate, raised to 1 second when the aggregate is
\* positive and the share rounds to 0; a zero aggregate gives 0 on every slot.
C19_DurationsRaisedToOneSecond ==
    pc = "done" =>
        \A i \in DOMAIN statsData :
            LET agg  == statsData[i].stats
                recs == statsAgentRecords(i)
            IN  \A k \in DOMAIN recs :
                    /\ parseDuration(recs[k].wrapUpTime)
                           = raisedShare(agg.wrap_up_time, recs[k])
                    /\ parseDuration(recs[k].holdTime)
                           = raisedShare(agg.hold_time, recs[k])
                    /\ parseDuration(recs[k].onCallTime)
                           = raisedShare(agg.on_call_time, recs[k])
                    /\ parseDuration(recs[k].notAvailableTime)
                           = raisedShare(agg.not_available_time, recs[k])

\* A finished report with a record whose share of a positive hold time
\* rounds to 0 and is shown as 1 second, and with a zero aggregate shown as 0.
C19_Witness ==
    /\ pc = "done"
    /\ \E i \in DOMAIN statsData :
           \E k \in DOMAIN statsAgentRecords(i) :
               LET rec == statsAgentRecords(i)[k]
                   agg == statsData[i].stats
               IN  /\ agg.hold_time > 0
                   /\ roundedShare(agg.hold_time, rec) = 0
                   /\ parseDuration(rec.holdTime) = 1
                   /\ agg.on_call_time = 0
                   /\ parseDuration(rec.onCallTime) = 0

\* C20 (average handle time): on every slot record of an agent of the stats
\* the average handle time is (talked + wrap-up + hold) / totalCalls of the
\* agent's aggregate, to the whole second, when totalCalls > 0, and 0
\* otherwise; it is the same on every slot of the agent.
C20_AverageHandleTime ==
    pc = "done" =>
        \A i \in DOMAIN statsData :
            LET agg     == statsData[i].stats
                recs    == statsAgentRecords(i)
                handled == agg.talked_time + agg.wrap_up_time + agg.hold_time
            IN  \A k \in DOMAIN recs :
                    /\ recs[k].aht = recs[1].aht
                    /\ IF agg.total_calls > 0
                       THEN Abs(parseDuration(recs[k].aht) * agg.total_calls
                                - handled) < agg.total_calls
                       ELSE parseDuration(recs[k].aht) = 0

\* The agents a report is assembled from: the entries of the stats for the
\* simplified report, the combined agent list for the slot-wise report.
candidateAgents ==
    IF outcome = "simplified"
    THEN {agentKeyOf(statsData[i].stats.name, statsData[i].ext) :
              i \in DOMAIN statsData}
    ELSE {agentKeyOf(allAgents(statsData, eventsData)[i].username,
                     allAgents(statsData, eventsData)[i].extension) :
              i \in DOMAIN allAgents(statsData, eventsData)}

\* The name contains the name filter ignoring case, and the extension
\* contains the extension filter; an absent filter admits everything.
matchesRequestFilters(agentKey) ==
    /\ agentNameFilter # NoFilter =>
           Includes(ToLowerCase(agentKey[1]), ToLowerCase(agentNameFilter))
    /\ extensionFilter # NoFilter => Includes(agentKey[2], extensionFilter)

\* C21 (filters): when a name or an extension filter is supplied, the
\* agents in the output of either report are exactly the agents whose name
\* contains the name filter ignoring case and whose extension contains the
\* extension filter.
C21_FiltersSelectAgents ==
    (pc = "done" /\ (agentNameFilter # NoFilter \/ extensionFilter # NoFilter)) =>
        uniqueAgentsOf(reportData) =
            {agentKey \in candidateAgents : matchesRequestFilters(agentKey)}

\* C22 (failed calls): on every slot record and on every simplified agent
\* record, failed is max(0, totalCalls - answered), so never negative.
C22_FailedNeverNegative ==
    pc = "done" =>
        \A i \in DOMAIN reportData :
            /\ reportData[i].failed >= 0
            /\ reportData[i].failed =
                   Max(0, reportData[i].totalCalls - reportData[i].answered)

\* An event that lacks its timestamp or its agent key.
isMalformedEvent(event) ==
    event.timestamp = NaN \/ event.username = <<>>

\* The feed with its malformed events removed.
wellFormedEvents(evts) ==
    SelectSeq(evts, LAMBDA e : ~isMalformedEvent(e))

\* C23 (malformed events): an event without a timestamp or without an
\* agent key is dropped: the report is returned, and its records are those
\* of the same feed without that event.
C23_MalformedEventDropped ==
    pc = "done" =>
        /\ outcome = "returned"
        /\ reportData = processAgentDataForSlotWiseReport(statsData,
                            wellFormedEvents(eventsData), timeSlots,
                            agentNameFilter, extensionFilter)

\* The metric fields of a record, as calculateSlotWiseCallMetrics names them.
recordMetrics(rec) ==
    [totalCalls       |-> rec.totalCalls,
     answeredCalls    |-> rec.answered,
     failedCalls      |-> rec.failed,
     wrapUpTime       |-> rec.wrapUpTime,
     holdTime         |-> rec.holdTime,
     onCallTime       |-> rec.onCallTime,
     notAvailableTime |-> rec.notAvailableTime,
     aht              |-> rec.aht]

\* Event sequences other than the one the agent has.
otherEventSequences ==
    {<<>>} \cup {<<Event(NameAn, Ext10, t, st)>> :
                    t \in TimelineEventTimes, st \in TimelineStates}

\* C25 (metrics independent of events): the metrics of every record are
\* those calculateSlotWiseCallMetrics returns for the same aggregate, slot
\* and slot list with any other event sequence.
C25_MetricsIndependentOfEvents ==
    pc = "done" =>
        \A i \in DOMAIN reportData :
            \A evts \in otherEventSequences :
                recordMetrics(reportData[i]) =
                    calculateSlotWiseCallMetrics(evts, reportData[i].dailyStats,
                        recordSlot(reportData[i]), timeSlots)

\* An agent with calls and with events, all of them in the first of two
\* slots, has a share of the calls in the second slot as well.
C25_Witness ==
    /\ pc = "done"
    /\ Len(timeSlots) = 2
    /\ eventsData # <<>>
    /\ \A k \in DOMAIN eventsData : ~inTimeSlot(eventsData[k], timeSlots[2])
    /\ \E i \in DOMAIN reportData :
           /\ reportData[i].slotNumber = 2
           /\ reportData[i].totalCalls > 0

\* The extensions under which the events of a fetch name a username.
eventExtensionsOf(evts, username) ==
    {evts[j].ext : j \in {j \in DOMAIN evts : evts[j].username = username}}

\* The records of a username under one extension.
recordsUnder(records, username, ext) ==
    SelectSeq(records, LAMBDA r : r.agentName = username /\ r.extension = ext)

\* The extensions under which the records show a username.
recordExtensionsOf(records, username) ==
    {records[j].extension :
        j \in {j \in DOMAIN records : records[j].agentName = username}}

\* C26 (disagreeing extensions): when the events of a username all carry
\* an extension E2 other than the extension E1 of the username's aggregate,
\* the records show the username under E2 with the aggregate's values, and
\* under no other extension: the aggregate is not reported under E1 too.
C26_OneIdentityPerUsername ==
    \A k \in DOMAIN slotResults :
        \A i \in DOMAIN statsData :
            LET username == statsData[i].stats.name
                records  == slotResults[k].agentData
            IN  \A ext \in eventExtensionsOf(fetchLog[k], username) :
                    (eventExtensionsOf(fetchLog[k], username) = {ext}
                       /\ ext # statsData[i].ext) =>
                        /\ recordsUnder(records, username, ext) # <<>>
                        /\ \A j \in DOMAIN recordsUnder(records, username, ext) :
                               recordsUnder(records, username, ext)[j].dailyStats
                                   = normalizeStats(statsData[i].stats)
                        /\ recordExtensionsOf(records, username) = {ext}

\* The blocks processEventsForTimeSlot returned for a record: the record's
\* blocks, unless they are the substituted 'No Activity' block.
emittedBlocks(rec) ==
    SelectSeq(rec.stateBlocks, LAMBDA b : "duration" \in DOMAIN b)

\* C29 (blocks inside the slot): every block of a slot starts at or after
\* the slot start, ends at or before the slot end, starts no later than it
\* ends and has a non-negative duration no longer than the slot; the blocks
\* are listed in start order and each starts no earlier than the one before
\* it ends.
C29_BlocksInsideSlot ==
    pc = "done" =>
        \A i \in DOMAIN reportData :
            LET blocks == emittedBlocks(reportData[i])
                slot   == recordSlot(reportData[i])
            IN  /\ \A b \in DOMAIN blocks :
                       /\ blocks[b].startTime >= formatTimeDubai(slot.start)
                       /\ blocks[b].endTime <= formatTimeDubai(slot.end)
                       /\ blocks[b].startTime <= blocks[b].endTime
                       /\ blocks[b].duration >= 0
                       /\ blocks[b].duration <= slot.end - slot.start
                /\ \A b \in 1..(Len(blocks) - 1) :
                       /\ blocks[b].startTime <= blocks[b + 1].startTime
                       /\ blocks[b].endTime <= blocks[b + 1].startTime

\* A second slot with a carried state and two events of other states, fed
\* out of order: three blocks, the first from the slot start.
C29_Witness ==
    /\ pc = "done"
    /\ \E k \in 1..(Len(eventsData) - 1) :
           eventsData[k].timestamp > eventsData[k + 1].timestamp
    /\ \E i \in DOMAIN reportData :
           /\ reportData[i].slotNumber = 2
           /\ Len(emittedBlocks(reportData[i])) >= 2
           /\ emittedBlocks(reportData[i])[1].duration > 0

\* The positions at which a run of equal states starts in a block list.
runStarts(blocks) ==
    {i \in DOMAIN blocks : i = 1 \/ blocks[i - 1].state # blocks[i].state}

\* The start of the g-th run, and the positions of its blocks.
runStart(blocks, g) ==
    CHOOSE i \in runStarts(blocks) :
        Cardinality({j \in runStarts(blocks) : j <= i}) = g

runMembers(blocks, g) ==
    {i \in DOMAIN blocks :
        /\ i >= runStart(blocks, g)
        /\ \A j \in runStarts(blocks) : j > runStart(blocks, g) => i < j}

runEnd(blocks, g) ==
    CHOOSE i \in runMembers(blocks, g) : \A j \in runMembers(blocks, g) : j <= i

\* state, startTime, endTime and duration of a list of groups or blocks.
blockFields(blocks) ==
    [i \in DOMAIN blocks |->
        [state     |-> blocks[i].state,
         startTime |-> blocks[i].startTime,
         endTime   |-> blocks[i].endTime,
         duration  |-> blocks[i].duration]]

\* The groups are the runs of the input, in order, each with the start of
\* its first block, the end of its last block and, when every block of the
\* run has a known duration, the sum of the durations.
groupsAreRuns ==
    /\ Len(consolidatedBlocks) = Cardinality(runStarts(inputBlocks))
    /\ \A g \in 1..(Len(consolidatedBlocks) - 1) :
           consolidatedBlocks[g].state # consolidatedBlocks[g + 1].state
    /\ \A g \in DOMAIN consolidatedBlocks :
           /\ consolidatedBlocks[g].state = inputBlocks[runStart(inputBlocks, g)].state
           /\ consolidatedBlocks[g].startTime =
                  inputBlocks[runStart(inputBlocks, g)].startTime
           /\ consolidatedBlocks[g].endTime = inputBlocks[runEnd(inputBlocks, g)].endTime
           /\ (\A m \in runMembers(inputBlocks, g) :
                   inputBlocks[m].duration # NullDuration)
              => consolidatedBlocks[g].duration =
                     <<SumSeq([k \in 1..Cardinality(runMembers(inputBlocks, g)) |->
                                  inputBlocks[runStart(inputBlocks, g) + k - 1]
                                      .duration[1]])>>

\* C27 (consolidation): the output of consolidateConsecutiveStates has no
\* two adjacent groups of one state, has the runs of the input in order
\* with the start of the first block, the end of the last block and the
\* sum of the known durations, and consolidating it again returns the same
\* state, start, end and duration for every group.
C27_ConsolidationIdempotent ==
    pc = "done" =>
        /\ groupsAreRuns
        /\ blockFields(consolidateConsecutiveStates(consolidatedBlocks))
               = blockFields(consolidatedBlocks)

sessionLinesOf(r) ==
    LET alone == logRequestLines(
                     startReportSession(
                         [logs |-> <<>>, active |-> FALSE, daily |-> <<>>,
                          files |-> <<>>], r), r)
    IN  IF handlerPc[r] = "responded"
        THEN log(log(alone, "Slot-wise report generated successfully", "info", r),
                 "Summary", "info", r).logs
        ELSE log(alone, "Error generating slot-wise agent report", "error", r).logs

\* C24 (no process-wide report state): whatever the requests that overlap
\* with it, the endReportSession of a request that started a session
\* returns a log file, and the file holds exactly the lines that request
\* logged between its start and its end.
C24_SessionsAreIsolated ==
    \A r \in Requests :
        handlerPc[r] \in {"responded", "failed"} =>
            /\ handlerLogFile[r] # NoPath
            /\ combinedLogFiles[handlerLogFile[r]] = sessionLinesOf(r)

\* C30 (session buffer): while no session is active the buffer is empty;
\* startReportSession leaves the session active and the buffer with its
\* start line alone; endReportSession returns null exactly when no session
\* was active at the call, and otherwise returns the path of a file and
\* leaves the session inactive with the buffer empty.
C30_SessionBuffer ==
    /\ ~reportSessionActive => currentReportLogs = <<>>
    /\ (~IsNull(lastCall) /\ lastCall.op = "startReportSession") =>
           /\ reportSessionActive
           /\ Len(currentReportLogs) = 1
           /\ currentReportLogs[1].message = "Starting new report generation session"
    /\ (~IsNull(lastCall) /\ lastCall.op = "endReportSession") =>
           /\ lastCall.result = NoPath <=> ~lastCall.wasActive
           /\ lastCall.result # NoPath =>
                  /\ lastCall.result \in DOMAIN combinedLogFiles
                  /\ ~reportSessionActive
                  /\ currentReportLogs = <<>>

\* A session with lines logged in it has been ended and its file written,
\* and a later endReportSession has returned null.
C30_Witness ==
    /\ ~IsNull(lastCall)
    /\ lastCall.op = "endReportSession"
    /\ lastCall.result = NoPath
    /\ \E f \in DOMAIN combinedLogFiles : Len(combinedLogFiles[f]) >= 2
    /\ ~reportSessionActive

====
